---- MODULE Spec2Model ----
(***************************************************************************)
(* IronRod recovery engine: RecoveryManager, DiskScanner.scan and its      *)
(* in-process and parallel carving paths, with the deduplication tracker.  *)
(* Offsets and sizes are byte counts, exactly as in the source.            *)
(***************************************************************************)
EXTENDS Integers, Sequences, FiniteSets, TLC

KiB == 1024
MiB == 1024 * 1024

\* scanner.py: DiskScanner class constants
READ_CHUNK == 4 * MiB
OVERLAP == 64 * KiB
_PARALLEL_THRESHOLD == 100 * MiB
_checkpoint_interval == 100 * MiB
DIRECT_FOOTER_LIMIT == 8 * MiB

\* mmap_reader.py
SECTOR_SIZE == 512

\* smart_filter.py
MIN_FILE_SIZE == 4096
DEDUP_WINDOW == 512
QUICK_HASH_SPAN == 8192

\* tsk_scanner.py: entries smaller than this are not reported
TSK_MIN_SIZE == 1024

\* signatures.py: the smallest min_size of the whole catalog (SIG_WASM)
SMALLEST_MIN_SIZE == 8

Min(a, b) == IF a < b THEN a ELSE b
Max(a, b) == IF a > b THEN a ELSE b

\* mmap_reader.align_down with the default alignment
align_down(pos) == (pos \div SECTOR_SIZE) * SECTOR_SIZE

\* signatures.py: the part of the catalog carried by the model.  jpg's footer
\* is searched from the end of the window (rfind), png's from the start.
SIG_JPEG == [ext |-> "jpg", header_len |-> 3, footer_len |-> 2,
             max_size |-> 30 * MiB, min_size |-> 4 * KiB]
SIG_PNG == [ext |-> "png", header_len |-> 8, footer_len |-> 12,
            max_size |-> 30 * MiB, min_size |-> 4 * KiB]
ALL_SIGNATURES == {SIG_JPEG, SIG_PNG}

\* scanner._find_sig_by_ext / _ext_to_sig
_find_sig_by_ext(ext) == CHOOSE s \in ALL_SIGNATURES : s.ext = ext

(***************************************************************************)
(* The medium.  A source is a device or image of device_size bytes that is *)
(* zero everywhere except inside its extents.  An extent is a run of       *)
(* non-zero file data: ext names the header magic found at its first byte  *)
(* ("raw" = no magic), footer tells whether the format's footer marker     *)
(* ends it, intact tells whether its structure passes the format           *)
(* validator, and cls names its bytes (equal cls = equal bytes).           *)
(***************************************************************************)
Extent(off, len, ext, cls, intact, footer) ==
    [off |-> off, len |-> len, ext |-> ext, cls |-> cls,
     intact |-> intact, footer |-> footer]

\* A directory entry of a deleted file, as the filesystem adapter reports it
TskEntry(inode, off, size, ext) ==
    [inode |-> inode, offset |-> off, size |-> size, extension |-> ext]

\* The checkpoint file: "unset" without a checkpoint directory, else "absent"
\* or "present" with the record's last_offset and bytes_scanned
Checkpoint(state, last_offset, bytes_scanned) ==
    [state |-> state, last_offset |-> last_offset, bytes_scanned |-> bytes_scanned]

\* A source.  checkpoint is "unset" when its scanner was given no checkpoint
\* directory (the RecoveryManager gives none), and else tells whether the
\* directory holds a checkpoint file when the first scan starts.  probe is what probing its filesystem comes to: "parsed" (a
\* prober returns a FilesystemInfo, whose free ranges are free_ranges),
\* "unsupported" (detect_and_parse returns None) or "raises"; a source given
\* with free ranges is one whose filesystem was parsed.
Source(name, size, is_file, extents, free, tsk, cpus) ==
    [name |-> name, device_size |-> size, is_file |-> is_file,
     extents |-> extents, free_ranges |-> free, tsk_entries |-> tsk,
     cpu_count |-> cpus,
     probe |-> IF free # << >> THEN "parsed" ELSE "unsupported",
     checkpoint |-> "unset"]

\* Is there non-zero data in [a, b) ?
HasData(disk, a, b) ==
    \E e \in disk.extents : e.off < b /\ a < e.off + e.len

\* The bytes of [a, b), described relative to a: which piece of which
\* extent lies where.  Two ranges hold the same bytes iff these are equal.
Content(disk, a, b) ==
    << b - a,
       { << Max(e.off, a) - a, Min(e.off + e.len, b) - a, e.cls,
            Max(e.off, a) - e.off >> :
         e \in { x \in disk.extents : x.off < b /\ a < x.off + x.len } } >>

\* mmap_reader.DiskReader.read_at: the length actually returned
read_at_len(disk, pos, size) ==
    IF pos < 0 \/ pos >= disk.device_size THEN 0
    ELSE Max(0, Min(size, disk.device_size - pos))

\* mmap_reader.is_empty_block on the chunk [offset, offset + chunk_len)
is_empty_block(disk, pos, chunk_len) ==
    chunk_len = 0 \/ ~HasData(disk, pos, pos + chunk_len)

\* smart_filter.compute_md5 of the bytes [offset, offset + size)
compute_md5(disk, pos, size) == << "md5", Content(disk, pos, pos + size) >>

\* smart_filter.quick_hash: digest of the first 8192 bytes and, when the
\* data is longer than that, of the last 8192 bytes
quick_hash(disk, pos, size) ==
    << Content(disk, pos, pos + Min(size, QUICK_HASH_SPAN)),
       IF size > QUICK_HASH_SPAN
       THEN Content(disk, pos + size - QUICK_HASH_SPAN, pos + size)
       ELSE << 0, {} >> >>

(***************************************************************************)
(* smart_filter.DeduplicationTracker.  A tracker is a record of the two    *)
(* sets it keeps.                                                          *)
(***************************************************************************)
NewTracker == [offsets |-> {}, quick_hashes |-> {}]

is_duplicate_offset(tracker, pos) ==
    \E o \in tracker.offsets :
        (IF o >= pos THEN o - pos ELSE pos - o) < DEDUP_WINDOW

\* is_duplicate_content answers from the set and, on a miss, adds the hash
is_duplicate_content(tracker, qh) == qh \in tracker.quick_hashes
after_content_check(tracker, qh) ==
    [tracker EXCEPT !.quick_hashes = @ \cup {qh}]

register(tracker, pos) == [tracker EXCEPT !.offsets = @ \cup {pos}]

(***************************************************************************)
(* Chunk classification and signature search.                              *)
(***************************************************************************)
\* How many bytes of [a, b) lie inside the extents of S
RECURSIVE DataBytes(_, _, _)
DataBytes(S, a, b) ==
    IF S = {} THEN 0
    ELSE LET e == CHOOSE x \in S : TRUE
         IN  Max(0, Min(e.off + e.len, b) - Max(e.off, a))
                 + DataBytes(S \ {e}, a, b)

\* calculate_entropy(sample) < ENTROPY_EMPTY_THRESHOLD (0.5 bits), for a
\* sample of sample_len bytes of which data_bytes lie in extents and the rest
\* are zero.  With at most 1/128 of the sample non-zero the entropy is below
\* 0.14 bits whatever the bytes are; from a third on it is above 0.9 bits.
\* Extent bytes are ordinary file data, whose own entropy lies between the
\* two thresholds; the sources keep clear of the fractions in between.
entropy_below_empty(data_bytes, sample_len) == data_bytes * 128 <= sample_len

\* scanner._classify_block_entropy: 4096 bytes are sampled (the whole block
\* when it is no longer than that, else 1365 bytes from its start, middle
\* and end)
_classify_block_entropy(disk, pos, len) ==
    LET sample_size == Min(4096, len)
        third == sample_size \div 3
        mid == pos + (len \div 2)
        sampled ==
            IF len <= sample_size
            THEN DataBytes(disk.extents, pos, pos + len)
            ELSE DataBytes(disk.extents, pos, pos + third)
                 + DataBytes(disk.extents, mid, mid + third)
                 + DataBytes(disk.extents, pos + len - third, pos + len)
    IN  IF entropy_below_empty(sampled,
                               IF len <= sample_size THEN len ELSE 3 * third)
        THEN "empty" ELSE "scan"

\* parallel._worker_scan's filter: sampled only when the chunk has at least
\* 4096 bytes (1365 + 1365 + 1366 of them); TRUE = the chunk is searched
worker_entropy_pass(disk, pos, len) ==
    LET mid == pos + (len \div 2)
    IN  len < 4096
        \/ ~entropy_below_empty(
                DataBytes(disk.extents, pos, pos + 1365)
                    + DataBytes(disk.extents, mid, mid + 1365)
                    + DataBytes(disk.extents, pos + len - 1366, pos + len),
                4096)

\* The sequence of the elements of a finite set of records, ascending in off
RECURSIVE SortByOff(_)
SortByOff(S) ==
    IF S = {} THEN << >>
    ELSE LET m == CHOOSE x \in S : \A y \in S : x.off <= y.off
         IN  << m >> \o SortByOff(S \ {m})

\* scanner._find_all for one signature's header in the chunk
\* [offset, offset + chunk_len): every position where the magic lies wholly
\* inside the chunk, ascending
_find_all(disk, pos, chunk_len, sig) ==
    SortByOff({ [off |-> e.off, sig |-> sig] :
                e \in { x \in disk.extents :
                          /\ x.ext = sig.ext
                          /\ x.len >= sig.header_len
                          /\ x.off >= pos
                          /\ x.off + sig.header_len <= pos + chunk_len } })

\* The order of the outer loop of _search_chunk over self._header_sigs
chunk_hits(disk, pos, chunk_len) ==
    _find_all(disk, pos, chunk_len, SIG_PNG)
        \o _find_all(disk, pos, chunk_len, SIG_JPEG)

\* Ends of the footer markers of sig that lie wholly inside [offset, limit)
footer_ends(disk, pos, limit, sig) ==
    { e.off + e.len :
      e \in { x \in disk.extents :
                /\ x.ext = sig.ext /\ x.footer
                /\ x.off + x.len - sig.footer_len >= pos
                /\ x.off + x.len <= limit } }

SetMax(S) == CHOOSE x \in S : \A y \in S : y <= x
SetMin(S) == CHOOSE x \in S : \A y \in S : x <= y

\* data.rfind(footer) for jpg, data.find(footer) otherwise, over
\* [offset, offset + n): the length kept up to and including the footer,
\* or -1 when there is no footer
footer_cut(disk, pos, n, sig) ==
    LET ends == footer_ends(disk, pos, pos + n, sig)
    IN  IF ends = {} THEN -1
        ELSE IF sig.ext = "jpg" THEN SetMax(ends) - pos
        ELSE SetMin(ends) - pos

\* smart_filter.validate_carved_file on the bytes [offset, offset + size):
\* the format's structure is sound when the extent that starts there is
\* intact and lies wholly inside the carved bytes
validate_carved_file(disk, pos, size) ==
    \E e \in disk.extents : e.off = pos /\ e.intact /\ e.len <= size

(***************************************************************************)
(* Records and carving.                                                    *)
(***************************************************************************)
\* scanner.RecoveredFile, the fields the engine's contracts speak about.
\* damage_report tells whether a Damage Report is attached; tsk_inode is 0
\* for carved records.
RecoveredFile(source, sig, pos, size, md5, is_valid, damage, inode) ==
    [source |-> source, extension |-> sig.ext, offset |-> pos,
     size |-> size, md5 |-> md5, is_valid |-> is_valid,
     damage_report |-> damage, tsk_inode |-> inode]

NoLength == 0 - 1

\* scanner._carve_footer_file, lines 1880-1928: the number of bytes carved
\* for a header of sig at offset, or NoLength where the function returns
\* None before validation
footer_carve_len(disk, pos, sig) ==
    LET max_read == Min(sig.max_size, disk.device_size - pos)
        data_len == read_at_len(disk, pos, max_read)
        cut == footer_cut(disk, pos, max_read, sig)
        len == IF max_read <= DIRECT_FOOTER_LIMIT
               THEN IF data_len < sig.min_size THEN NoLength
                    ELSE IF cut # -1 THEN cut ELSE data_len
               ELSE \* _search_footer_chunked
                    IF cut # -1 THEN cut
                    ELSE IF max_read >= MIN_FILE_SIZE THEN max_read
                    ELSE NoLength
    IN  IF max_read < sig.min_size THEN NoLength
        ELSE IF len < sig.min_size THEN NoLength
        ELSE len

\* scanner._carve_footer_file, lines 1889-1918: a header read in one piece
\* whose footer is missing is remembered for the bifragment pass
footer_orphan(disk, pos, sig) ==
    LET max_read == Min(sig.max_size, disk.device_size - pos)
    IN  /\ max_read >= sig.min_size
        /\ max_read <= DIRECT_FOOTER_LIMIT
        /\ read_at_len(disk, pos, max_read) >= sig.min_size
        /\ footer_cut(disk, pos, max_read, sig) = -1

\* parallel._try_carve_footer: at most 8 MiB are read; NoLength where the
\* function returns None before validation
worker_carve_len(disk, pos, sig) ==
    LET max_read == Min(sig.max_size, disk.device_size - pos)
        data_len == read_at_len(disk, pos, Min(max_read, DIRECT_FOOTER_LIMIT))
        cut == footer_cut(disk, pos, data_len, sig)
        len == IF cut # -1 THEN cut ELSE data_len
    IN  IF max_read < sig.min_size \/ data_len < sig.min_size THEN NoLength
        ELSE IF len < sig.min_size THEN NoLength
        ELSE len

(***************************************************************************)
(* The sources the scans are run on.                                       *)
(***************************************************************************)
\* How many scans one manager is asked to run
MaxScans == 2

PNG_LEN == 100 * KiB

\* An image file of no bytes
SRC_EMPTY == Source("empty", 0, TRUE, {}, << >>, << >>, 4)

\* Image files of 7 bytes, shorter than every signature's min_size: one of
\* ordinary data, one of zeros
SRC_TINY == Source("tiny", 7, TRUE, {Extent(0, 7, "raw", 9, TRUE, FALSE)},
                   << >>, << >>, 4)
SRC_TINY_ZERO == Source("tiny-zero", 7, TRUE, {}, << >>, << >>, 4)

\* A 6 MiB image without a filesystem: a PNG and a copy of it, a damaged
\* PNG and a copy of it; the last 64 KiB are zeros
SRC_IMAGE ==
    Source("image", 6 * MiB, TRUE,
           { Extent(1 * MiB, PNG_LEN, "png", 1, TRUE, TRUE),
             Extent(2 * MiB, PNG_LEN, "png", 1, TRUE, TRUE),
             Extent(3 * MiB, 50 * KiB, "png", 2, FALSE, TRUE),
             Extent(3 * MiB + 512 * KiB, 50 * KiB, "png", 2, FALSE, TRUE) },
           << >>, << >>, 4)

\* A 6 MiB image with a filesystem whose free space is two ranges: a JPEG
\* header without footer and a PNG that runs on past the end of the first
\* range, and a PNG inside the second range
SRC_FORENSIC ==
    Source("forensic", 6 * MiB, TRUE,
           { Extent(1 * MiB + 512, 4 * KiB, "jpg", 4, FALSE, FALSE),
             Extent(1 * MiB + 512 * KiB, 1 * MiB, "png", 5, TRUE, TRUE),
             Extent(3 * MiB + 512 * KiB, PNG_LEN, "png", 1, TRUE, TRUE) },
           << << 1 * MiB, 2 * MiB >>, << 3 * MiB, 4 * MiB >> >>, << >>, 4)

\* A 6 MiB raw device without a parsable allocation bitmap, on which the
\* filesystem adapter reports two deleted files whose data offset it could
\* not resolve (offset 0), and which holds one PNG
SRC_DEVICE ==
    Source("device", 6 * MiB, FALSE,
           { Extent(2 * MiB, PNG_LEN, "png", 1, TRUE, TRUE) },
           << >>,
           << TskEntry(5, 0, 2000, "jpg"), TskEntry(6, 0, 50 * KiB, "png") >>,
           4)

\* A 128 MiB image without a filesystem, scanned by two workers: a PNG in
\* the first worker's half, a copy of it in the second worker's half, and a
\* damaged PNG
SRC_LARGE ==
    Source("large", 128 * MiB, TRUE,
           { Extent(2 * MiB, PNG_LEN, "png", 1, TRUE, TRUE),
             Extent(6 * MiB - 64 * KiB, 50 * KiB, "png", 2, FALSE, TRUE),
             Extent(66 * MiB, PNG_LEN, "png", 1, TRUE, TRUE) },
           << >>, << >>, 4)

\* A 128 MiB image without a filesystem, scanned by two workers: a PNG and a
\* copy of it 1 MiB further on, both in the first chunk of the first worker
SRC_TWINS ==
    Source("twins", 128 * MiB, TRUE,
           { Extent(2 * MiB, PNG_LEN, "png", 1, TRUE, TRUE),
             Extent(3 * MiB, PNG_LEN, "png", 1, TRUE, TRUE) },
           << >>, << >>, 4)

\* A 1 MiB image without a filesystem that is zero up to its last 64 KiB,
\* which hold ordinary data
SRC_TAIL ==
    Source("tail", 1 * MiB, TRUE,
           { Extent(1 * MiB - 64 * KiB, 64 * KiB, "raw", 9, TRUE, FALSE) },
           << >>, << >>, 4)

\* An 8 MiB image without a filesystem, zero but for one PNG whose
\* signature begins 4 bytes before the end of the first chunk of 4 MiB
SRC_STRADDLE ==
    Source("straddle", 8 * MiB, TRUE,
           { Extent(READ_CHUNK - 4, PNG_LEN, "png", 1, TRUE, TRUE) },
           << >>, << >>, 4)

\* A 100 MiB image without a filesystem, large enough for two workers, that
\* is zero up to its last 64 KiB, which hold ordinary data
SRC_LARGE_TAIL ==
    Source("large_tail", 100 * MiB, TRUE,
           { Extent(100 * MiB - 64 * KiB, 64 * KiB, "raw", 9, TRUE, FALSE) },
           << >>, << >>, 4)

\* A 1 MiB image of a filesystem without a free block (the prober returns
\* an empty list) that holds one PNG
SRC_FULL_FS ==
    [Source("full_fs", 1 * MiB, TRUE,
            { Extent(256 * KiB, PNG_LEN, "png", 1, TRUE, TRUE) },
            << >>, << >>, 4) EXCEPT !.probe = "parsed"]

\* A 1 MiB image with one PNG on which probing the filesystem raises
SRC_PROBE_RAISES ==
    [Source("probe_raises", 1 * MiB, TRUE,
            { Extent(512 * KiB, PNG_LEN, "png", 1, TRUE, TRUE) },
            << >>, << >>, 4) EXCEPT !.probe = "raises"]

\* A 128 MiB image without a filesystem on a machine with one processor,
\* scanned by a scanner that was given a checkpoint directory: zeros but for
\* a PNG at 102 MiB
SRC_CHECKPOINTED ==
    [Source("checkpointed", 128 * MiB, TRUE,
            { Extent(102 * MiB, PNG_LEN, "png", 1, TRUE, TRUE) },
            << >>, << >>, 1) EXCEPT !.checkpoint = "absent"]

\* A 1 MiB image whose checkpoint directory holds the checkpoint of an
\* earlier scan
SRC_RESUMED ==
    [Source("resumed", 1 * MiB, TRUE,
            { Extent(256 * KiB, PNG_LEN, "png", 1, TRUE, TRUE) },
            << >>, << >>, 1) EXCEPT !.checkpoint = "present"]

Sources == { SRC_EMPTY, SRC_TINY, SRC_TINY_ZERO, SRC_IMAGE, SRC_FORENSIC,
             SRC_DEVICE, SRC_LARGE, SRC_TAIL, SRC_STRADDLE, SRC_LARGE_TAIL,
             SRC_FULL_FS, SRC_PROBE_RAISES, SRC_CHECKPOINTED, SRC_RESUMED,
             SRC_TWINS }

\* filesystem.FilesystemInfo.total_free_bytes
RECURSIVE total_free_bytes(_)
total_free_bytes(ranges) ==
    IF ranges = << >> THEN 0
    ELSE (Head(ranges)[2] - Head(ranges)[1]) + total_free_bytes(Tail(ranges))

(***************************************************************************)
(* Damage analysis (damage_detector.py) and repair (file_repair.py).       *)
(* Bytes are described by what the six checks of analyze_damage find in    *)
(* them; scores are kept in thousandths, so 0.35 is 350.                   *)
(***************************************************************************)
\* The extensions the repairability rules tell apart
Extensions == { "jpg", "mpg", "swf" }

\* Percentages of zeroed blocks the null-region check can report
NullPercents == { 0, 30, 99 }

\* What the checks of analyze_damage find in a byte string of 8 bytes or more
Findings ==
    [ header_damaged : BOOLEAN, footer_missing : BOOLEAN,
      truncated : BOOLEAN, structure_broken : BOOLEAN,
      entropy_anomaly : BOOLEAN, null_region_percent : NullPercents,
      repair_actions : BOOLEAN ]

\* The findings of bytes in which no check finds anything
Clean ==
    [ header_damaged |-> FALSE, footer_missing |-> FALSE,
      truncated |-> FALSE, structure_broken |-> FALSE,
      entropy_anomaly |-> FALSE, null_region_percent |-> 0,
      repair_actions |-> FALSE ]

\* A byte string: "empty", "short" (under 8 bytes) or "long" with findings;
\* rev tells the carved bytes (0) from bytes a repair handler rewrote (1)
FileData(length, findings, rev) ==
    [ length |-> length, findings |-> findings, rev |-> rev ]

\* damage_detector.DamageReport with its defaults
DamageReport ==
    [ is_damaged |-> FALSE, damage_level |-> "healthy", damage_score |-> 0,
      repairable |-> FALSE, header_damaged |-> FALSE,
      footer_missing |-> FALSE, truncated |-> FALSE,
      has_null_regions |-> FALSE, structure_broken |-> FALSE,
      entropy_anomaly |-> FALSE, null_region_percent |-> 0,
      repair_actions |-> FALSE ]

\* The six checks: each sets its flag from the bytes; has_null_regions is set
\* when more than 20 percent of the blocks are zeroed (_check_null_regions)
run_checks(findings) ==
    [ DamageReport EXCEPT
        !.header_damaged = findings.header_damaged,
        !.footer_missing = findings.footer_missing,
        !.truncated = findings.truncated,
        !.structure_broken = findings.structure_broken,
        !.entropy_anomaly = findings.entropy_anomaly,
        !.null_region_percent = findings.null_region_percent,
        !.has_null_regions = findings.null_region_percent > 20,
        !.repair_actions = findings.repair_actions ]

\* 1 for a set flag, 0 otherwise
Flag(b) == IF b THEN 1 ELSE 0

\* damage_detector._compute_damage_level
_compute_damage_level(report) ==
    LET issue_count ==
            Flag(report.header_damaged) + Flag(report.footer_missing)
            + Flag(report.truncated) + Flag(report.structure_broken)
            + Flag(report.has_null_regions) + Flag(report.entropy_anomaly)
        score ==
            350 * Flag(report.header_damaged)
            + 100 * Flag(report.footer_missing)
            + 150 * Flag(report.truncated)
            + 250 * Flag(report.structure_broken)
            + (IF report.has_null_regions
               THEN Min(400, report.null_region_percent * 5) ELSE 0)
            + 100 * Flag(report.entropy_anomaly)
            + (IF issue_count >= 3 THEN 100 ELSE 0)
    IN  [ report EXCEPT
            !.damage_score = Min(1000, score),
            !.is_damaged = score > 0,
            !.damage_level =
                IF score = 0 THEN "healthy"
                ELSE IF score <= 150 THEN "minor"
                ELSE IF score <= 350 THEN "moderate"
                ELSE IF score <= 650 THEN "severe"
                ELSE "fatal" ]

\* damage_detector._assess_repairability
_assess_repairability(ext, report) ==
    IF ~report.is_damaged
    THEN [ report EXCEPT !.repairable = FALSE ]
    ELSE IF ext = "mpg"
    THEN IF report.null_region_percent > 98
         THEN [ report EXCEPT !.repairable = FALSE ]
         ELSE [ report EXCEPT
                  !.repairable = TRUE,
                  !.repair_actions =
                      \/ report.repair_actions
                      \/ report.has_null_regions
                      \/ report.footer_missing
                      \/ report.header_damaged ]
    ELSE IF ext = "swf"
    THEN [ report EXCEPT
             !.repairable = TRUE,
             !.repair_actions =
                 report.repair_actions \/ report.structure_broken ]
    ELSE IF report.damage_level = "fatal" /\ report.null_region_percent > 60
    THEN [ report EXCEPT !.repairable = FALSE ]
    ELSE IF report.repair_actions
    THEN [ report EXCEPT !.repairable = TRUE ]
    ELSE IF report.footer_missing /\ ~report.header_damaged
    THEN [ report EXCEPT !.repairable = TRUE, !.repair_actions = TRUE ]
    ELSE IF report.truncated /\ ~report.header_damaged
    THEN [ report EXCEPT !.repairable = TRUE ]
    ELSE [ report EXCEPT !.repairable = report.damage_score < 650 ]

\* damage_detector.analyze_damage: bytes under 8 are fatal with score 1.0
analyze_damage(ext, data) ==
    IF data.length # "long"
    THEN [ DamageReport EXCEPT
             !.is_damaged = TRUE, !.damage_level = "fatal",
             !.damage_score = 1000 ]
    ELSE _assess_repairability(
             ext, _compute_damage_level(run_checks(data.findings)))

\* manager.analyze_file_damage, no device path or no size: fatal, score 1.0
cannot_read_report ==
    [ DamageReport EXCEPT
        !.is_damaged = TRUE, !.damage_level = "fatal", !.damage_score = 1000 ]

\* manager.analyze_file_damage, the read or the analysis raised: the level
\* is set to severe and the score keeps the default of the dataclass
analysis_error_report ==
    [ DamageReport EXCEPT !.is_damaged = TRUE, !.damage_level = "severe" ]

\* scanner._run_tsk_scan: the report an adapter record is given
tsk_default_report ==
    [ DamageReport EXCEPT
        !.is_damaged = TRUE, !.damage_level = "severe",
        !.damage_score = 600 ]

\* file_repair.repair_file's level_order
level_order(level) ==
    CASE level = "healthy" -> 0
      [] level = "minor" -> 1
      [] level = "moderate" -> 2
      [] level = "severe" -> 3
      [] OTHER -> 4

\* file_repair.RepairResult with its defaults; an absent value is << >>
RepairResult ==
    [ success |-> FALSE, repaired_data |-> << >>, actions_taken |-> FALSE,
      actions_failed |-> FALSE, damage_before |-> << >>,
      damage_after |-> << >> ]

\* The verdict repair_file ends with
repair_success(before_level, after_level, actions_taken, actions_failed) ==
    \/ level_order(after_level) < level_order(before_level)
    \/ (actions_taken /\ ~actions_failed)

\* file_repair.repair_file; handled is what the format's handler did: the
\* bytes it returned and whether it recorded actions taken and actions failed
repair_file(ext, data, report, handled) ==
    IF ~report.is_damaged
    THEN [ RepairResult EXCEPT
             !.success = TRUE, !.repaired_data = << data >>,
             !.actions_taken = TRUE, !.damage_before = << report >> ]
    ELSE LET after == analyze_damage(ext, handled.repaired)
         IN  [ success |->
                   repair_success(report.damage_level, after.damage_level,
                                  handled.actions_taken,
                                  handled.actions_failed),
               repaired_data |-> << handled.repaired >>,
               actions_taken |-> handled.actions_taken,
               actions_failed |-> handled.actions_failed,
               damage_before |-> << report >>,
               damage_after |-> << after >> ]

(***************************************************************************)
(* State.                                                                  *)
(***************************************************************************)
VARIABLES
    src,                 \* the source the manager is asked to scan
    scans_started,       \* RecoveryManager: scans started so far
    clean_results,       \* what undisturbed scans of a large source returned
    thread,              \* RecoveryManager._scan_thread: "none", "alive", "dead"
    session_files,       \* ScanSession.recovered_files
    was_cancelled,       \* ScanSession.was_cancelled
    complete_calls,      \* calls of on_scan_complete so far
    pc,                  \* where the scan thread is
    is_cancelled,        \* DiskScanner.progress.is_cancelled
    cancel_requested,    \* cancel_scan was called during the current scan
    scan_mode,           \* "", "forensic" or "brute-force"
    dedup,               \* DiskScanner._dedup
    fragment_candidates, \* DiskScanner._fragment_candidates
    recovered,           \* scan(): the list it returns
    inner,               \* the list a scanning pass builds before returning it
    file_counter,        \* scan(): file_counter
    offset,              \* the chunk loop's offset
    range_idx,           \* _scan_ranges: index of the range being scanned
    hits,                \* _search_chunk: header hits not yet looked at
    found,               \* _search_chunk: found
    tsk_idx,             \* adapter: directory entries visited so far
    deleted_files,       \* adapter: scan_deleted_files' deleted_files
    workers,             \* parallel: the worker processes
    result_queue,        \* parallel: result_queue
    workers_done,        \* _scan_parallel: workers_done
    notified,            \* records passed to on_file_found, in order
    registered,          \* records ever appended to a result list of the scan
    carved,              \* candidates carved and then judged, with the verdict
    emitted,             \* records ever built by a carver
    error,               \* the scan ended in an except clause
    checkpoint_file,     \* the checkpoint file and the record it holds
    last_checkpoint_bytes, \* DiskScanner._last_checkpoint_bytes
    bytes_done,          \* _scan_ranges: bytes_done
    request,             \* the arguments of a call of optimal_worker_count
    n_workers,           \* what the call returned (num_workers); 0 before it
    reader,              \* DiskScanner._reader: "none", or "mapped" while its mmap is open
    disk_open,           \* scan()'s file object on the source is open
    stage,               \* after the scan: where the handling of a record is
    device,              \* after the scan: what reading the record's bytes gives
    record,              \* after the scan: the record being analysed or saved
    out_file,            \* after the scan: the bytes written to out_path
    counter,             \* saving: each worker's file counter
    saving,              \* saving: where each worker is in _save_file_worker
    out_dir,             \* saving: the files of the output directory
    overwritten,         \* saving: paths opened for writing while they existed
    volume,              \* probing: the volume a prober is run on
    fs_info              \* probing: the FilesystemInfo the prober returned

vars == << src, scans_started, clean_results, thread, session_files, was_cancelled,
           complete_calls, pc,
           is_cancelled, cancel_requested, scan_mode, dedup,
           fragment_candidates, recovered, inner, file_counter, offset,
           range_idx, hits, found, tsk_idx, deleted_files, workers,
           result_queue, workers_done, notified, registered, carved, emitted,
           error, checkpoint_file, last_checkpoint_bytes, bytes_done,
           reader, disk_open, request, n_workers,
           stage, device, record, out_file, counter, saving, out_dir,
           overwritten, volume, fs_info >>

record_vars == << stage, device, record, out_file >>
files_vars == << counter, saving, out_dir, overwritten >>
probe_vars == << volume, fs_info >>
count_vars == << request, n_workers >>
post_vars == << record_vars, files_vars, probe_vars, count_vars >>
checkpoint_vars == << checkpoint_file, last_checkpoint_bytes, bytes_done >>
reader_vars == << reader, disk_open >>
manager_vars == << scans_started, clean_results, thread, session_files, was_cancelled,
                  complete_calls >>
tsk_vars == << tsk_idx, deleted_files >>
parallel_vars == << workers, result_queue, workers_done >>
search_vars == << hits, found >>
ghost_vars == << notified, registered, carved, emitted >>

\* A freshly constructed DiskScanner (scanner.__init__), before scan() runs
FreshScanner ==
    /\ pc = "idle"
    /\ is_cancelled = FALSE
    /\ cancel_requested = FALSE
    /\ scan_mode = ""
    /\ dedup = NewTracker
    /\ fragment_candidates = << >>
    /\ recovered = << >>
    /\ inner = << >>
    /\ file_counter = 0
    /\ offset = 0
    /\ range_idx = 1
    /\ hits = << >>
    /\ found = << >>
    /\ tsk_idx = 0
    /\ deleted_files = << >>
    /\ workers = << >>
    /\ result_queue = << >>
    /\ workers_done = 0
    /\ notified = << >>
    /\ registered = {}
    /\ carved = {}
    /\ emitted = {}
    /\ error = FALSE
    /\ last_checkpoint_bytes = 0
    /\ bytes_done = 0
    /\ reader = "none"
    /\ disk_open = FALSE

\* After the scan: no record is being analysed or saved
RecordIdle ==
    /\ stage = "idle"
    /\ device = [outcome |-> "no_path", data |-> FileData("empty", Clean, 0)]
    /\ record = [extension |-> "jpg", damage_report |-> << >>,
                 repair_result |-> << >>, is_repaired |-> FALSE]
    /\ out_file = << >>

\* No worker is saving a file
FilesIdle ==
    /\ counter = << >>
    /\ saving = << >>
    /\ out_dir = [earlier |-> {}, written |-> {}]
    /\ overwritten = {}

\* No prober is being run
ProbeIdle ==
    /\ volume = [fs_type |-> "", device_size |-> 0, unit_size |-> 0,
                 units |-> 0, blocks_per_group |-> 0, heap_offset |-> 0,
                 bitmaps |-> << >>]
    /\ fs_info = [parsed |-> FALSE, fs_type |-> "", free_ranges |-> << >>,
                  total_free_bytes |-> 0]

\* No worker count is being computed
CountIdle ==
    /\ request = [total_bytes |-> 0, cpu_count |-> 0]
    /\ n_workers = 0

PostIdle == RecordIdle /\ FilesIdle /\ ProbeIdle /\ CountIdle

Init ==
    /\ src \in Sources
    /\ scans_started = 0
    /\ clean_results = {}
    /\ thread = "none"
    /\ session_files = << >>
    /\ was_cancelled = FALSE
    /\ complete_calls = 0
    /\ FreshScanner
    /\ checkpoint_file = Checkpoint(src.checkpoint, 0, 0)
    /\ PostIdle

\* The elements of a sequence
Elems(seq) == { seq[i] : i \in 1..Len(seq) }

(***************************************************************************)
(* RecoveryManager.                                                        *)
(***************************************************************************)
\* manager.start_scan: nothing happens while a scan thread is alive;
\* otherwise a new session, a new DiskScanner and a new thread
start_scan ==
    /\ scans_started < MaxScans
    /\ IF thread = "alive"
       THEN UNCHANGED vars
       ELSE /\ scans_started' = scans_started + 1
            /\ thread' = "alive"
            /\ session_files' = << >>
            /\ was_cancelled' = FALSE
            /\ pc' = "begin"
            /\ is_cancelled' = FALSE
            /\ cancel_requested' = FALSE
            /\ scan_mode' = ""
            /\ dedup' = NewTracker
            /\ fragment_candidates' = << >>
            /\ recovered' = << >>
            /\ inner' = << >>
            /\ file_counter' = 0
            /\ offset' = 0
            /\ range_idx' = 1
            /\ hits' = << >>
            /\ found' = << >>
            /\ tsk_idx' = 0
            /\ deleted_files' = << >>
            /\ workers' = << >>
            /\ result_queue' = << >>
            /\ workers_done' = 0
            /\ notified' = << >>
            /\ registered' = {}
            /\ carved' = {}
            /\ emitted' = {}
            /\ error' = FALSE
            /\ last_checkpoint_bytes' = 0
            /\ bytes_done' = 0
            /\ reader' = "none"
            /\ disk_open' = FALSE
            /\ UNCHANGED << post_vars, checkpoint_file, src, complete_calls,
                            clean_results >>

\* manager.cancel_scan -> scanner.cancel: sets the flag of the progress
\* object the scanner holds at that moment
cancel_scan ==
    /\ is_cancelled' = TRUE
    /\ cancel_requested' = (cancel_requested \/ thread = "alive")
    /\ UNCHANGED << post_vars, checkpoint_vars, reader_vars, src, manager_vars, pc, scan_mode, dedup,
                    fragment_candidates, recovered, inner, file_counter,
                    offset, range_idx, search_vars, tsk_vars, parallel_vars,
                    ghost_vars, error >>

\* manager._run_scan, lines 165-196: scan() returned; the session takes the
\* list and on_scan_complete is called
calls_after_return(n) == n + 1

run_scan_returned ==
    /\ pc = "returned"
    /\ session_files' = recovered
    /\ was_cancelled' = is_cancelled
    /\ complete_calls' = calls_after_return(complete_calls)
    /\ thread' = "dead"
    /\ pc' = "done"
    /\ UNCHANGED << post_vars, checkpoint_vars, reader_vars, src, scans_started, clean_results, is_cancelled, cancel_requested,
                    scan_mode, dedup, fragment_candidates, recovered, inner,
                    file_counter, offset, range_idx, search_vars, tsk_vars,
                    parallel_vars, ghost_vars, error >>

\* An except clause that forgets the completion callback
calls_unchanged(n) == n

\* manager._run_scan, lines 197-206: scan() raised; on_scan_complete is
\* called from the except clause
calls_after_raise(n) == n + 1

run_scan_raised ==
    /\ pc = "raised"
    /\ complete_calls' = calls_after_raise(complete_calls)
    /\ thread' = "dead"
    /\ pc' = "done"
    /\ UNCHANGED << post_vars, checkpoint_vars, reader_vars, src, scans_started, clean_results, session_files,
                    was_cancelled, is_cancelled, cancel_requested, scan_mode,
                    dedup, fragment_candidates,
                    recovered, inner, file_counter, offset, range_idx,
                    search_vars, tsk_vars, parallel_vars, ghost_vars, error >>

(***************************************************************************)
(* DiskScanner.scan, up to the carving pass.                               *)
(***************************************************************************)
\* scan(), lines 639-643: the device size cannot be determined
scan_no_size ==
    /\ pc = "begin"
    /\ src.device_size = 0
    /\ recovered' = << >>
    /\ pc' = "returned"
    /\ UNCHANGED << post_vars, checkpoint_vars, reader_vars, src, manager_vars, is_cancelled, cancel_requested,
                    scan_mode, dedup, fragment_candidates, inner,
                    file_counter, offset, range_idx, search_vars, tsk_vars,
                    parallel_vars, ghost_vars, error >>

\* scan(), lines 657-658: creating the output directory raises
scan_makedirs_raises ==
    /\ pc = "begin"
    /\ src.device_size # 0
    /\ error' = TRUE
    /\ pc' = "raised"
    /\ UNCHANGED << post_vars, checkpoint_vars, reader_vars, src, manager_vars, is_cancelled, cancel_requested,
                    scan_mode, dedup, fragment_candidates, recovered, inner,
                    file_counter, offset, range_idx, search_vars, tsk_vars,
                    parallel_vars, ghost_vars >>

\* filesystem.detect_and_parse: the FilesystemInfo's free ranges in a
\* one-element sequence, or << >> for None
detect_and_parse(disk) ==
    IF disk.probe = "parsed" THEN << disk.free_ranges >> ELSE << >>

\* A mode selection that never enters forensic mode
mode_always_brute_force(disk) == "brute-force"

\* scan(), lines 664-687: forensic mode when the probe gave a FilesystemInfo
\* with at least one free range; brute force when it gave None, raised (the
\* except clause of line 668) or found no free range
select_mode(disk) ==
    LET info == IF disk.probe = "raises" THEN << >>
                ELSE detect_and_parse(disk)
    IN  IF info # << >> /\ Head(info) # << >> THEN "forensic"
        ELSE "brute-force"

\* scan(), lines 671-683: the ranges the carving passes are given
scan_domain ==
    IF scan_mode = "forensic" THEN src.free_ranges
    ELSE << << 0, src.device_size >> >>

\* scan(), lines 664-716: the mode is chosen, a new ScanProgress replaces
\* the old one (its is_cancelled is False), the tracker is cleared
scan_begin ==
    /\ pc = "begin"
    /\ src.device_size # 0
    /\ scan_mode' = select_mode(src)
    /\ is_cancelled' = FALSE
    /\ dedup' = NewTracker
    /\ recovered' = << >>
    /\ file_counter' = 0
    /\ pc' = IF src.is_file THEN "open" ELSE "tsk"
    /\ UNCHANGED << post_vars, checkpoint_vars, reader_vars, src, manager_vars, cancel_requested, fragment_candidates,
                    inner, offset, range_idx, search_vars, tsk_vars,
                    parallel_vars, ghost_vars, error >>

\* tsk_scanner._traverse_directory, one directory entry: a deleted file of
\* at least 1024 bytes is appended to deleted_files
tsk_entry ==
    /\ pc = "tsk"
    /\ tsk_idx < Len(src.tsk_entries)
    /\ tsk_idx' = tsk_idx + 1
    /\ deleted_files' =
           IF src.tsk_entries[tsk_idx + 1].size < TSK_MIN_SIZE
           THEN deleted_files
           ELSE Append(deleted_files, src.tsk_entries[tsk_idx + 1])
    /\ UNCHANGED << post_vars, checkpoint_vars, reader_vars, src, manager_vars, pc, is_cancelled, cancel_requested,
                    scan_mode, dedup, fragment_candidates, recovered, inner,
                    file_counter, offset, range_idx, search_vars,
                    parallel_vars, ghost_vars, error >>

\* scanner._run_tsk_scan, lines 462-526: the record built for one entry.
\* The data is checked against the extension only when the offset is known.
tsk_record(tf) ==
    LET damaged == /\ tf.offset > 0 /\ tf.size > 0
                   /\ ~\E e \in src.extents :
                          e.off = tf.offset /\ e.ext = tf.extension
    IN  RecoveredFile("tsk", _find_sig_by_ext(tf.extension), tf.offset,
                      tf.size, "", ~damaged, damaged, tf.inode)

tsk_results == [i \in 1..Len(deleted_files) |-> tsk_record(deleted_files[i])]

\* scan(), lines 718-731, after scan_deleted_files returned: its
\* worker.join(timeout) (tsk_scanner.py lines 211-242) returns when the
\* traversal has ended or when the timeout has passed, whatever the traversal
\* thread is doing, so the step is enabled after any number of entries.
\* Every record is appended, its offset registered, and on_file_found called
tsk_pass_done ==
    /\ pc = "tsk"
    /\ recovered' = recovered \o tsk_results
    /\ file_counter' = file_counter + Len(tsk_results)
    /\ dedup' = [dedup EXCEPT !.offsets =
                     @ \cup { tsk_results[i].offset : i \in 1..Len(tsk_results) }]
    /\ notified' = notified \o tsk_results
    /\ registered' = registered \cup Elems(tsk_results)
    /\ pc' = "open"
    /\ UNCHANGED << post_vars, checkpoint_vars, reader_vars, src, manager_vars, is_cancelled, cancel_requested,
                    scan_mode, fragment_candidates, inner, offset, range_idx,
                    search_vars, tsk_vars, parallel_vars, carved, emitted,
                    error >>

(***************************************************************************)
(* The carving pass: which path scan() takes.                              *)
(***************************************************************************)
\* parallel.ParallelScanConfig defaults
MIN_RANGE_PER_WORKER == 50 * MiB
MAX_WORKERS == 8

\* scan(), lines 671-683
scan_total ==
    IF scan_mode = "forensic" THEN total_free_bytes(src.free_ranges)
    ELSE src.device_size

\* optimal_worker_count with the size rounded up
worker_count_rounded_up(total_bytes, os_cpu_count) ==
    LET cpu_count == IF os_cpu_count = 0 THEN 2 ELSE os_cpu_count
        max_by_size == Max(1, (total_bytes + MIN_RANGE_PER_WORKER - 1)
                                  \div MIN_RANGE_PER_WORKER)
    IN  Min(Min(max_by_size, cpu_count), MAX_WORKERS)

\* parallel.optimal_worker_count, lines 83-103, for the configuration
\* _scan_parallel builds (num_workers = 0); a cpu_count of 0 stands for an
\* os.cpu_count() of None
optimal_worker_count(total_bytes, os_cpu_count) ==
    LET cpu_count == IF os_cpu_count = 0 THEN 2 ELSE os_cpu_count
        max_by_size == Max(1, total_bytes \div MIN_RANGE_PER_WORKER)
    IN  Min(Min(max_by_size, cpu_count), MAX_WORKERS)

\* parallel.split_sequential_for_workers, lines 158-166: the first n ranges
RECURSIVE sequential_ranges(_, _, _, _)
sequential_ranges(total_size, num_workers, chunk_size, n) ==
    IF n = 0 THEN << >>
    ELSE Append(sequential_ranges(total_size, num_workers, chunk_size, n - 1),
                << (n - 1) * chunk_size,
                   IF n = num_workers THEN total_size
                   ELSE Min(n * chunk_size + OVERLAP, total_size) >>)

\* parallel.split_sequential_for_workers
split_sequential_for_workers(total_size, num_workers) ==
    LET chunk_size == ((total_size \div num_workers) \div 4096) * 4096
    IN  IF num_workers <= 1 \/ chunk_size < MiB
        THEN << << 0, total_size >> >>
        ELSE sequential_ranges(total_size, num_workers, chunk_size,
                               num_workers)

\* The ranges handed to _scan_parallel (scan(), lines 754-763 and 798-816)
parallel_ranges ==
    IF scan_mode = "forensic" THEN src.free_ranges
    ELSE split_sequential_for_workers(src.device_size,
                                      optimal_worker_count(scan_total, src.cpu_count))

\* scan(), lines 745-838 with _scan_parallel's lines 1215-1218: is the pass
\* run by worker processes?
use_parallel ==
    /\ scan_total >= _PARALLEL_THRESHOLD
    /\ optimal_worker_count(scan_total, src.cpu_count) > 1
    /\ scan_mode = "brute-force" => Len(parallel_ranges) > 1

(***************************************************************************)
(* The in-process pass: _scan_ranges and _scan_sequential.                 *)
(***************************************************************************)
\* The end of what the chunk loop is scanning
range_end ==
    IF scan_mode = "forensic" THEN src.free_ranges[range_idx][2]
    ELSE src.device_size

\* The length of the chunk read at the loop's offset
chunk_len == read_at_len(src, offset, Min(READ_CHUNK, range_end - offset))

\* The loop condition, with the break on an empty read
in_loop == offset < range_end /\ ~is_cancelled /\ chunk_len > 0

\* scan(), lines 736-738, 776-787 and 827-838: the source is opened and
\* mapped, and the pass starts with its own list
open_in_process ==
    /\ pc = "open"
    /\ ~use_parallel
    /\ inner' = << >>
    /\ range_idx' = 1
    /\ bytes_done' = 0
    /\ disk_open' = TRUE
    /\ reader' = "mapped"
    /\ offset' = IF scan_mode = "forensic"
                 THEN align_down(src.free_ranges[1][1]) ELSE 0
    /\ pc' = "loop"
    /\ UNCHANGED << post_vars, checkpoint_file, last_checkpoint_bytes, src, manager_vars, is_cancelled, cancel_requested,
                    scan_mode, dedup, fragment_candidates, recovered,
                    file_counter, search_vars, tsk_vars, parallel_vars,
                    ghost_vars, error >>

\* _scan_ranges lines 957-991, _scan_sequential lines 1075-1099: one chunk
\* is read; an all-zero chunk or one the entropy filter rejects is skipped
\* whole, any other is handed to _search_chunk
read_chunk ==
    /\ pc = "loop"
    /\ in_loop
    /\ IF \/ is_empty_block(src, offset, chunk_len)
          \/ _classify_block_entropy(src, offset, chunk_len) # "scan"
       THEN /\ offset' = offset + chunk_len
            /\ bytes_done' = IF scan_mode = "forensic"
                             THEN bytes_done + chunk_len ELSE bytes_done
            /\ UNCHANGED << pc, hits, found >>
       ELSE /\ hits' = chunk_hits(src, offset, chunk_len)
            /\ found' = << >>
            /\ pc' = "search"
            /\ UNCHANGED << offset, bytes_done >>
    /\ UNCHANGED << post_vars, checkpoint_file, last_checkpoint_bytes, reader_vars, src, manager_vars, is_cancelled, cancel_requested,
                    scan_mode, dedup, fragment_candidates, recovered, inner,
                    file_counter, range_idx, tsk_vars, parallel_vars,
                    ghost_vars, error >>

\* The read of a chunk raises (a failing medium): scan()'s except clause,
\* lines 876-879, takes over and the pass's list is never returned.  The
\* with statement of line 736 closes the file object; the reader's close()
\* of lines 865-867 is not reached
read_error ==
    /\ pc = "loop"
    /\ in_loop
    /\ error' = TRUE
    /\ disk_open' = FALSE
    /\ pc' = "finalize"
    /\ UNCHANGED << post_vars, checkpoint_vars, reader, src, manager_vars, is_cancelled, cancel_requested,
                    scan_mode, dedup, fragment_candidates, recovered, inner,
                    file_counter, offset, range_idx, search_vars, tsk_vars,
                    parallel_vars, ghost_vars >>

\* The verdict _carve_footer_file reaches on the bytes it carved
Verdict(off, ext, verdict, by, saved) ==
    [offset |-> off, extension |-> ext, verdict |-> verdict, by |-> by,
     saved |-> saved]

\* _search_chunk lines 1553-1565 with _carve_footer_file: one header hit
search_hit ==
    /\ pc = "search"
    /\ hits # << >>
    /\ LET abs_off == Head(hits).off
           sig == Head(hits).sig
           len == footer_carve_len(src, abs_off, sig)
           md5 == compute_md5(src, abs_off, len)
           qh == quick_hash(src, abs_off, len)
           damaged == RecoveredFile("carved", sig, abs_off, len, md5,
                                    FALSE, TRUE, 0)
           valid == RecoveredFile("carved", sig, abs_off, len, md5,
                                  TRUE, FALSE, 0)
       IN  /\ hits' = Tail(hits)
           /\ IF is_duplicate_offset(dedup, abs_off)
              THEN UNCHANGED << dedup, fragment_candidates, found, carved,
                                emitted >>
              ELSE /\ fragment_candidates' =
                          IF footer_orphan(src, abs_off, sig)
                          THEN Append(fragment_candidates,
                                      [offset |-> abs_off, sig |-> sig])
                          ELSE fragment_candidates
                   /\ IF len = NoLength
                      THEN UNCHANGED << dedup, found, carved, emitted >>
                      ELSE IF ~validate_carved_file(src, abs_off, len)
                      THEN /\ found' = Append(found, damaged)
                           /\ dedup' = register(dedup, abs_off)
                           /\ carved' = carved \cup
                                  {Verdict(abs_off, sig.ext, "invalid", "scanner",
                               FALSE)}
                           /\ emitted' = emitted \cup {damaged}
                      ELSE IF is_duplicate_content(dedup, qh)
                      THEN /\ carved' = carved \cup
                                  {Verdict(abs_off, sig.ext, "duplicate", "scanner",
                               FALSE)}
                           /\ UNCHANGED << dedup, found, emitted >>
                      ELSE /\ found' = Append(found, valid)
                           /\ dedup' = register(after_content_check(dedup, qh),
                                                abs_off)
                           /\ carved' = carved \cup
                                  {Verdict(abs_off, sig.ext, "accepted", "scanner",
                               TRUE)}
                           /\ emitted' = emitted \cup {valid}
    /\ UNCHANGED << post_vars, checkpoint_vars, reader_vars, src, manager_vars, pc, is_cancelled, cancel_requested,
                    scan_mode, recovered, inner, file_counter, offset,
                    range_idx, tsk_vars, parallel_vars, notified, registered,
                    error >>

\* _scan_sequential lines 1120-1123 and _scan_ranges lines 1013-1016: where
\* the loop goes after a searched chunk
next_offset ==
    IF scan_mode = "forensic"
    THEN offset + (IF chunk_len - OVERLAP <= 0 THEN chunk_len
                   ELSE chunk_len - OVERLAP)
    ELSE align_down(Max(0, offset + chunk_len - OVERLAP))

\* _scan_ranges line 1017: the bytes the searched chunk adds to bytes_done
bytes_done_after ==
    IF scan_mode = "forensic"
    THEN bytes_done + Min(next_offset - offset, range_end - offset)
    ELSE bytes_done

\* What the periodic checkpoint test compares: bytes_done in _scan_ranges
\* (line 1038), offset in _scan_sequential (line 1149)
scan_position == IF scan_mode = "forensic" THEN bytes_done ELSE offset

\* The position after the searched chunk
position_after ==
    IF scan_mode = "forensic" THEN bytes_done_after ELSE next_offset

\* _save_checkpoint, lines 360-386: nothing without a checkpoint file, else
\* the record replaces the file
_save_checkpoint(file, last_offset, bytes_scanned) ==
    IF file.state = "unset" THEN file
    ELSE Checkpoint("present", last_offset, bytes_scanned)

\* clear_checkpoint, lines 406-412
clear_checkpoint(file) ==
    IF file.state = "present" THEN Checkpoint("absent", 0, 0) ELSE file

\* _scan_ranges lines 1005-1046, _scan_sequential lines 1112-1157: the
\* chunk's records join the pass's list, on_file_found is called for each,
\* the offset advances, and inside the progress notification, which the
\* clock lets through once in 0.3 s, the periodic checkpoint is saved
chunk_end ==
    /\ pc = "search"
    /\ hits = << >>
    /\ inner' = inner \o found
    /\ file_counter' = file_counter + Len(found)
    /\ notified' = notified \o found
    /\ registered' = registered \cup Elems(found)
    /\ found' = << >>
    /\ offset' = next_offset
    /\ bytes_done' = bytes_done_after
    /\ \E notify_due \in BOOLEAN :
        IF notify_due /\ position_after - last_checkpoint_bytes >= _checkpoint_interval
        THEN /\ last_checkpoint_bytes' = position_after
             /\ checkpoint_file' = _save_checkpoint(checkpoint_file, next_offset, position_after)
        ELSE UNCHANGED << checkpoint_file, last_checkpoint_bytes >>
    /\ pc' = "loop"
    /\ UNCHANGED << post_vars, reader_vars, src, manager_vars, is_cancelled, cancel_requested,
                    scan_mode, dedup, fragment_candidates, recovered,
                    range_idx, hits, tsk_vars, parallel_vars, carved,
                    emitted, error >>

\* _scan_ranges lines 950-955: the next free range
next_range ==
    /\ pc = "loop"
    /\ ~in_loop
    /\ scan_mode = "forensic"
    /\ ~is_cancelled
    /\ range_idx < Len(src.free_ranges)
    /\ range_idx' = range_idx + 1
    /\ offset' = align_down(src.free_ranges[range_idx + 1][1])
    /\ UNCHANGED << post_vars, checkpoint_vars, reader_vars, src, manager_vars, pc, is_cancelled, cancel_requested,
                    scan_mode, dedup, fragment_candidates, recovered, inner,
                    file_counter, search_vars, tsk_vars, parallel_vars,
                    ghost_vars, error >>

\* _scan_ranges line 1048, _scan_sequential line 1159, and scan() lines 778
\* and 829: the pass returns its list, which becomes scan()'s list
pass_return ==
    /\ pc = "loop"
    /\ ~in_loop
    /\ \/ scan_mode = "brute-force"
       \/ is_cancelled
       \/ range_idx >= Len(src.free_ranges)
    /\ recovered' = inner
    /\ pc' = "bifragment"
    /\ UNCHANGED << post_vars, checkpoint_vars, reader_vars, src, manager_vars, is_cancelled, cancel_requested,
                    scan_mode, dedup, fragment_candidates, inner,
                    file_counter, offset, range_idx, search_vars, tsk_vars,
                    parallel_vars, ghost_vars, error >>

(***************************************************************************)
(* The bifragment pass and the end of scan().                              *)
(***************************************************************************)
\* _bifragment_gap_carve: how many later ranges are searched for a footer
MAX_GAP_SEARCH == 10

\* _bifragment_gap_carve lines 1405-1411: the index of the range holding the
\* header, 0 when no range holds it
header_range(ranges, header_offset) ==
    LET holding == { i \in 1..Len(ranges) :
                        ranges[i][1] <= header_offset
                        /\ header_offset < ranges[i][2] }
    IN  IF holding = {} THEN 0 ELSE SetMin(holding)

\* lines 1415-1423: the bytes from the header to the end of its range
first_fragment_len(ranges, frag) ==
    LET h == header_range(ranges, frag.offset)
    IN  read_at_len(src, frag.offset,
                    Min(ranges[h][2] - frag.offset, frag.sig.max_size))

\* lines 1433-1463: what range i adds when it holds a usable footer, else
\* NoLength
second_part_len(ranges, frag, i) ==
    LET first == first_fragment_len(ranges, frag)
        search_size == Min(ranges[i][2] - ranges[i][1],
                           frag.sig.max_size - first)
        second == read_at_len(src, ranges[i][1], search_size)
        cut == footer_cut(src, ranges[i][1], second, frag.sig)
    IN  IF search_size <= 0 \/ second = 0 \/ cut = -1 THEN NoLength
        ELSE IF first + cut < frag.sig.min_size THEN NoLength
        ELSE cut

\* lines 1429-1432: the first later range with a usable footer, 0 when none
footer_range(ranges, frag) ==
    LET h == header_range(ranges, frag.offset)
        usable == { i \in (h + 1)..Min(h + MAX_GAP_SEARCH, Len(ranges)) :
                       second_part_len(ranges, frag, i) # NoLength }
    IN  IF h = 0 \/ first_fragment_len(ranges, frag) = 0 \/ usable = {}
        THEN 0 ELSE SetMin(usable)

\* _bifragment_gap_carve lines 1458-1510: what one candidate whose footer
\* was found in range i yields under tracker d: the record it adds (none for
\* a content duplicate) and the tracker afterwards
reassemble(ranges, frag, i, d) ==
    LET first == first_fragment_len(ranges, frag)
        cut == second_part_len(ranges, frag, i)
        md5 == << "md5", Content(src, frag.offset, frag.offset + first),
                  Content(src, ranges[i][1], ranges[i][1] + cut) >>
        qh == << Content(src, frag.offset,
                         frag.offset + Min(first, QUICK_HASH_SPAN)),
                 Content(src, ranges[i][1] + Max(0, cut - QUICK_HASH_SPAN),
                         ranges[i][1] + cut) >>
        valid == validate_carved_file(src, frag.offset, first + cut)
        rf == RecoveredFile("carved", frag.sig, frag.offset, first + cut,
                            md5, valid, ~valid, 0)
    IN  IF ~valid THEN [results |-> << rf >>, dedup |-> d]
        ELSE IF is_duplicate_content(d, qh)
        THEN [results |-> << >>, dedup |-> d]
        ELSE [results |-> << rf >>,
              dedup |-> register(after_content_check(d, qh), frag.offset)]

\* _bifragment_gap_carve lines 1394-1456 for one candidate
gap_carve_one(ranges, frag, d) ==
    IF footer_range(ranges, frag) = 0
    THEN [results |-> << >>, dedup |-> d]
    ELSE reassemble(ranges, frag, footer_range(ranges, frag), d)

\* _bifragment_gap_carve: the records it returns for the candidates frags
\* and the tracker it leaves, given the results and tracker so far
RECURSIVE gap_carve(_, _, _)
gap_carve(ranges, frags, acc) ==
    IF frags = << >> THEN acc
    ELSE gap_carve(ranges, Tail(frags),
                   [results |-> acc.results
                        \o gap_carve_one(ranges, Head(frags), acc.dedup).results,
                    dedup |-> gap_carve_one(ranges, Head(frags), acc.dedup).dedup])

\* scan(), lines 840-867: the second pass runs when there are candidates and
\* the scan is forensic; its records are appended and on_file_found called;
\* then the reader is closed and the with statement closes the file object
bifragment_pass ==
    /\ pc = "bifragment"
    /\ LET run == fragment_candidates # << >> /\ scan_mode = "forensic"
           out == IF run /\ ~is_cancelled
                  THEN gap_carve(src.free_ranges, fragment_candidates,
                                 [results |-> << >>, dedup |-> dedup])
                  ELSE [results |-> << >>, dedup |-> dedup]
       IN  /\ recovered' = recovered \o out.results
           /\ file_counter' = file_counter + Len(out.results)
           /\ dedup' = out.dedup
           /\ notified' = notified \o out.results
           /\ registered' = registered \cup Elems(out.results)
           /\ emitted' = emitted \cup Elems(out.results)
    /\ reader' = "none"
    /\ disk_open' = FALSE
    /\ pc' = "finalize"
    /\ UNCHANGED << post_vars, checkpoint_vars, src, manager_vars, is_cancelled, cancel_requested,
                    scan_mode, fragment_candidates, inner, offset, range_idx,
                    search_vars, tsk_vars, parallel_vars, carved, error >>

\* What the comparison of two scans looks at in a list of records: offsets,
\* sizes, validity flags and damage information
Returned(list) ==
    { [offset |-> list[i].offset, size |-> list[i].size,
       is_valid |-> list[i].is_valid,
       damage_report |-> list[i].damage_report] : i \in 1..Len(list) }

\* The scan ran to its end: it was not cancelled, nothing raised, and every
\* worker process put its records on the queue
Undisturbed ==
    /\ ~is_cancelled
    /\ ~error
    /\ \A w \in 1..Len(workers) : workers[w].status = "exited"

\* scan(), lines 881-921: the scan returns its list.  clean_results keeps
\* what the undisturbed scans of a source large enough for a parallel scan
\* returned.
scan_finalize ==
    /\ pc = "finalize"
    /\ pc' = "returned"
    /\ clean_results' = IF Undisturbed /\ use_parallel
                        THEN clean_results \cup { Returned(recovered) }
                        ELSE clean_results
    /\ checkpoint_file' = IF is_cancelled THEN checkpoint_file
                          ELSE clear_checkpoint(checkpoint_file)
    /\ UNCHANGED << post_vars, last_checkpoint_bytes, bytes_done, reader_vars, src, scans_started, thread, session_files,
                    was_cancelled, complete_calls, is_cancelled, cancel_requested,
                    scan_mode, dedup, fragment_candidates, recovered, inner,
                    file_counter, offset, range_idx, search_vars, tsk_vars,
                    parallel_vars, ghost_vars, error >>

(***************************************************************************)
(* The parallel pass: _scan_parallel and parallel._worker_scan.            *)
(***************************************************************************)
\* The largest of a set of ranges in the order of sorted(..., reverse=True)
\* on (size, start, end)
largest_range(S) ==
    CHOOSE r \in S : \A q \in S :
        \/ r[2] - r[1] > q[2] - q[1]
        \/ r[2] - r[1] = q[2] - q[1] /\ r[1] >= q[1]

\* parallel.split_ranges_for_workers, lines 126-131: each range, largest
\* first, goes to the worker with the fewest bytes so far
RECURSIVE assign_ranges(_, _, _)
assign_ranges(S, worker_ranges, worker_bytes) ==
    IF S = {} THEN worker_ranges
    ELSE LET r == largest_range(S)
             w == CHOOSE i \in 1..Len(worker_bytes) :
                      \A j \in 1..Len(worker_bytes) :
                          \/ worker_bytes[i] < worker_bytes[j]
                          \/ worker_bytes[i] = worker_bytes[j] /\ i <= j
         IN  assign_ranges(S \ {r},
                 [worker_ranges EXCEPT ![w] = Append(@, r)],
                 [worker_bytes EXCEPT ![w] = @ + (r[2] - r[1])])

NonEmpty(seq) == seq # << >>

\* [v] * n
RECURSIVE Fill(_, _)
Fill(v, n) == IF n = 0 THEN << >> ELSE Append(Fill(v, n - 1), v)

\* parallel.split_ranges_for_workers
split_ranges_for_workers(ranges, num_workers) ==
    IF num_workers <= 1 \/ ranges = << >> THEN << ranges >>
    ELSE SelectSeq(assign_ranges(Elems(ranges),
                                 Fill(<< >>, num_workers),
                                 Fill(0, num_workers)),
                   NonEmpty)

\* mmap_reader.iter_chunks, lines 210-226: inside the generator the all-zero
\* blocks of a sector or more are passed over without a yield; the offset of
\* the block that is yielded next, or the offset at which the loop ends
skip_empty_blocks(disk, off, end) ==
    LET last == Max(0, end - off) \div READ_CHUNK
        passed(o) == /\ o < end
                     /\ read_at_len(disk, o, Min(READ_CHUNK, end - o))
                            >= SECTOR_SIZE
                     /\ is_empty_block(disk, o,
                            read_at_len(disk, o, Min(READ_CHUNK, end - o)))
        skipped == { i \in 0..last :
                        \A k \in 0..i : passed(off + k * READ_CHUNK) }
    IN  Min(off + Cardinality(skipped) * READ_CHUNK, Max(off, end))

\* _scan_parallel lines 1220-1264: one process per range set, each with its
\* own tracker and record list
new_worker(ranges) ==
    [ranges |-> ranges, ridx |-> 1,
     offset |-> IF ranges = << >> THEN 0 ELSE align_down(ranges[1][1]),
     dedup |-> NewTracker, file_records |-> << >>, hits |-> << >>,
     status |-> "running", reader |-> "mapped"]

RECURSIVE spawn(_)
spawn(range_sets) ==
    IF range_sets = << >> THEN << >>
    ELSE << new_worker(Head(range_sets)) >> \o spawn(Tail(range_sets))

open_parallel ==
    /\ pc = "open"
    /\ use_parallel
    /\ workers' = spawn(split_ranges_for_workers(parallel_ranges,
                            optimal_worker_count(scan_total, src.cpu_count)))
    /\ result_queue' = << >>
    /\ workers_done' = 0
    /\ inner' = << >>
    /\ disk_open' = TRUE
    /\ reader' = "none"
    /\ pc' = "collect"
    /\ UNCHANGED << post_vars, checkpoint_vars, src, manager_vars, is_cancelled, cancel_requested,
                    scan_mode, dedup, fragment_candidates, recovered,
                    file_counter, offset, range_idx, search_vars, tsk_vars,
                    ghost_vars, error >>

\* scan() lines 749-777 and 792-838: _scan_parallel raises while it sets the
\* workers up (a queue cannot be created, a process cannot be started); the
\* except clause makes a new reader and the pass is run in process on the
\* same ranges.  No worker is running: the failure comes before the first
\* process has started.
parallel_startup_fails ==
    /\ pc = "open"
    /\ use_parallel
    /\ workers' = << >>
    /\ inner' = << >>
    /\ range_idx' = 1
    /\ bytes_done' = 0
    /\ disk_open' = TRUE
    /\ reader' = "mapped"
    /\ offset' = IF scan_mode = "forensic"
                 THEN align_down(src.free_ranges[1][1]) ELSE 0
    /\ pc' = "loop"
    /\ UNCHANGED << post_vars, checkpoint_file, last_checkpoint_bytes, src, manager_vars, is_cancelled, cancel_requested,
                    scan_mode, dedup, fragment_candidates, recovered,
                    file_counter, search_vars, tsk_vars, result_queue,
                    workers_done, ghost_vars, error >>

\* Worker processes run from their start until they exit or are terminated
worker_runs(w) ==
    /\ pc \in {"collect", "join"}
    /\ w \in 1..Len(workers)
    /\ workers[w].status = "running"

\* mmap_reader.iter_chunks for the worker's current range: its end and the
\* length of the chunk at the worker's offset
worker_end(w) ==
    Min(workers[w].ranges[workers[w].ridx][2], src.device_size)

\* The offset of the block the generator yields next in the worker's current
\* range, or the offset at which its loop ends
worker_yield(w) == skip_empty_blocks(src, workers[w].offset, worker_end(w))

worker_chunk_len(w, off) ==
    read_at_len(src, off, Min(READ_CHUNK, worker_end(w) - off))

worker_in_range(w) ==
    /\ workers[w].ridx <= Len(workers[w].ranges)
    /\ \E off \in { worker_yield(w) } :
           /\ off < worker_end(w)
           /\ worker_chunk_len(w, off) > 0

\* iter_chunks lines 231-234: the advance after a chunk that was yielded
worker_advance(len) == IF len - OVERLAP <= 0 THEN len ELSE len - OVERLAP

\* parallel._worker_scan lines 230-258 with iter_chunks lines 210-234: the
\* generator passes over the empty blocks and yields a chunk; one the entropy
\* filter rejects is passed over, any other is searched
worker_chunk(w) ==
    /\ worker_runs(w)
    /\ workers[w].hits = << >>
    /\ worker_in_range(w)
    /\ \E off \in { worker_yield(w) } :
       \E len \in { worker_chunk_len(w, off) } :
           workers' = [workers EXCEPT ![w] =
               IF is_empty_block(src, off, len)
                  \/ ~worker_entropy_pass(src, off, len)
               THEN [@ EXCEPT !.offset = off + worker_advance(len)]
               ELSE [@ EXCEPT !.offset = off + worker_advance(len),
                              !.hits = chunk_hits(src, off, len)]]
    /\ UNCHANGED << post_vars, checkpoint_vars, reader_vars, src, manager_vars, pc, is_cancelled, cancel_requested,
                    scan_mode, dedup, fragment_candidates, recovered, inner,
                    file_counter, offset, range_idx, search_vars, tsk_vars,
                    result_queue, workers_done, ghost_vars, error >>

\* parallel._search_chunk_worker_full lines 341-353 with _try_carve_footer:
\* one header hit.  A candidate that fails the validator, or whose content
\* the worker has seen, is not recorded.
worker_hit(w) ==
    /\ worker_runs(w)
    /\ workers[w].hits # << >>
    /\ LET abs_off == Head(workers[w].hits).off
           sig == Head(workers[w].hits).sig
           d == workers[w].dedup
           len == worker_carve_len(src, abs_off, sig)
           qh == quick_hash(src, abs_off, len)
           rec == [extension |-> sig.ext, offset |-> abs_off, size |-> len,
                   md5 |-> compute_md5(src, abs_off, len)]
           popped == [workers[w] EXCEPT !.hits = Tail(@)]
       IN  IF is_duplicate_offset(d, abs_off) \/ len = NoLength
           THEN /\ workers' = [workers EXCEPT ![w] = popped]
                /\ UNCHANGED << carved, emitted >>
           ELSE IF ~validate_carved_file(src, abs_off, len)
           THEN /\ workers' = [workers EXCEPT ![w] = popped]
                /\ carved' = carved \cup
                       {Verdict(abs_off, sig.ext, "invalid", "worker",
                               FALSE)}
                /\ UNCHANGED emitted
           ELSE IF is_duplicate_content(d, qh)
           THEN /\ workers' = [workers EXCEPT ![w] = popped]
                /\ carved' = carved \cup
                       {Verdict(abs_off, sig.ext, "duplicate", "worker",
                               TRUE)}
                /\ UNCHANGED emitted
           ELSE /\ workers' = [workers EXCEPT ![w] =
                       [popped EXCEPT
                          !.dedup = register(after_content_check(d, qh), abs_off),
                          !.file_records = Append(@, rec)]]
                /\ carved' = carved \cup
                       {Verdict(abs_off, sig.ext, "accepted", "worker",
                               TRUE)}
                /\ emitted' = emitted \cup
                       {RecoveredFile("carved", sig, abs_off, len, rec.md5,
                                      TRUE, FALSE, 0)}
    /\ UNCHANGED << post_vars, checkpoint_vars, reader_vars, src, manager_vars, pc, is_cancelled, cancel_requested,
                    scan_mode, dedup, fragment_candidates, recovered, inner,
                    file_counter, offset, range_idx, search_vars, tsk_vars,
                    result_queue, workers_done, notified, registered, error >>

\* parallel._worker_scan line 229: the worker's next range
worker_next_range(w) ==
    /\ worker_runs(w)
    /\ workers[w].hits = << >>
    /\ workers[w].ridx <= Len(workers[w].ranges)
    /\ ~worker_in_range(w)
    /\ workers' = [workers EXCEPT ![w] =
           [@ EXCEPT !.ridx = @ + 1,
                     !.offset = IF workers[w].ridx < Len(workers[w].ranges)
                                THEN align_down(
                                    workers[w].ranges[workers[w].ridx + 1][1])
                                ELSE 0]]
    /\ UNCHANGED << post_vars, checkpoint_vars, reader_vars, src, manager_vars, pc, is_cancelled, cancel_requested,
                    scan_mode, dedup, fragment_candidates, recovered, inner,
                    file_counter, offset, range_idx, search_vars, tsk_vars,
                    result_queue, workers_done, ghost_vars, error >>

\* parallel._worker_scan lines 273-284: the worker puts its one result on
\* the queue and exits
worker_put(w) ==
    /\ worker_runs(w)
    /\ workers[w].ridx > Len(workers[w].ranges)
    /\ result_queue' = Append(result_queue,
           [worker_id |-> w, file_records |-> workers[w].file_records])
    /\ workers' = [workers EXCEPT ![w] =
                       [@ EXCEPT !.status = "exited", !.reader = "none"]]
    /\ UNCHANGED << post_vars, checkpoint_vars, reader_vars, src, manager_vars, pc, is_cancelled, cancel_requested,
                    scan_mode, dedup, fragment_candidates, recovered, inner,
                    file_counter, offset, range_idx, search_vars, tsk_vars,
                    workers_done, ghost_vars, error >>

\* parallel._worker_scan lines 286-293: an exception in the worker (the
\* device cannot be opened, a read fails) is caught; the worker puts a result
\* without records on the queue and exits
worker_raises(w) ==
    /\ worker_runs(w)
    /\ result_queue' = Append(result_queue,
           [worker_id |-> w, file_records |-> << >>])
    /\ workers' = [workers EXCEPT ![w] =
                       [@ EXCEPT !.status = "failed", !.reader = "none"]]
    /\ UNCHANGED << post_vars, checkpoint_vars, reader_vars, src, manager_vars, pc, is_cancelled, cancel_requested,
                    scan_mode, dedup, fragment_candidates, recovered, inner,
                    file_counter, offset, range_idx, search_vars, tsk_vars,
                    workers_done, ghost_vars, error >>

\* The worker process is killed from outside (a signal, the out-of-memory
\* killer): no clause of _worker_scan runs, nothing is put on the queue
worker_killed(w) ==
    /\ worker_runs(w)
    /\ workers' = [workers EXCEPT ![w] = [@ EXCEPT !.status = "killed", !.reader = "none"]]
    /\ UNCHANGED << post_vars, checkpoint_vars, reader_vars, src, manager_vars, pc, is_cancelled, cancel_requested,
                    scan_mode, dedup, fragment_candidates, recovered, inner,
                    file_counter, offset, range_idx, search_vars, tsk_vars,
                    result_queue, workers_done, ghost_vars, error >>

\* The records of the results waiting in the queue, in the order the
\* orchestrator meets them
RECURSIVE queued_records(_)
queued_records(queue) ==
    IF queue = << >> THEN << >>
    ELSE Head(queue).file_records \o queued_records(Tail(queue))

\* _scan_parallel lines 1305-1332: worker records become RecoveredFiles; one
\* within the window of a registered offset is passed over, no record's
\* content is compared with another's
RECURSIVE merge_records(_, _)
merge_records(recs, acc) ==
    IF recs = << >> THEN acc
    ELSE LET rec == Head(recs)
             rf == RecoveredFile("carved", _find_sig_by_ext(rec.extension),
                                 rec.offset, rec.size, rec.md5, TRUE, FALSE, 0)
         IN  merge_records(Tail(recs),
                 IF is_duplicate_offset(acc.dedup, rec.offset) THEN acc
                 ELSE [dedup |-> register(acc.dedup, rec.offset),
                       out |-> Append(acc.out, rf)])

\* _scan_parallel lines 1271-1336, one turn of the collector loop that finds
\* results waiting: every one of them is taken and merged
collect_results ==
    /\ pc = "collect"
    /\ workers_done < Len(workers)
    /\ ~is_cancelled
    /\ result_queue # << >>
    /\ LET merged == merge_records(queued_records(result_queue),
                                   [dedup |-> dedup, out |-> << >>])
       IN  /\ dedup' = merged.dedup
           /\ inner' = inner \o merged.out
           /\ file_counter' = file_counter + Len(merged.out)
           /\ notified' = notified \o merged.out
           /\ registered' = registered \cup Elems(merged.out)
    /\ workers_done' = workers_done + Len(result_queue)
    /\ result_queue' = << >>
    /\ UNCHANGED << post_vars, checkpoint_vars, reader_vars, src, manager_vars, pc, is_cancelled, cancel_requested,
                    scan_mode, fragment_candidates, recovered, offset,
                    range_idx, search_vars, tsk_vars, workers, carved,
                    emitted, error >>

\* _scan_parallel line 1271: the collector loop ends when every worker's
\* result was taken, or when the scan is cancelled
collect_exit ==
    /\ pc = "collect"
    /\ workers_done >= Len(workers) \/ is_cancelled
    /\ pc' = "join"
    /\ UNCHANGED << post_vars, checkpoint_vars, reader_vars, src, manager_vars, is_cancelled, cancel_requested,
                    scan_mode, dedup, fragment_candidates, recovered, inner,
                    file_counter, offset, range_idx, search_vars, tsk_vars,
                    parallel_vars, ghost_vars, error >>

\* _scan_parallel lines 1338-1354 and scan() lines 773 and 825: each process
\* is joined for 5 seconds and terminated if still alive; the collected
\* list becomes scan()'s list
RECURSIVE terminate_alive(_)
terminate_alive(procs) ==
    IF procs = << >> THEN << >>
    ELSE << IF Head(procs).status = "running"
            THEN [Head(procs) EXCEPT !.status = "terminated", !.reader = "none"]
            ELSE Head(procs) >> \o terminate_alive(Tail(procs))

join_workers ==
    /\ pc = "join"
    /\ workers' = terminate_alive(workers)
    /\ recovered' = inner
    /\ pc' = "bifragment"
    /\ UNCHANGED << post_vars, checkpoint_vars, reader_vars, src, manager_vars, is_cancelled, cancel_requested,
                    scan_mode, dedup, fragment_candidates, inner,
                    file_counter, offset, range_idx, search_vars, tsk_vars,
                    result_queue, workers_done, ghost_vars, error >>

Next ==
    \/ start_scan
    \/ cancel_scan
    \/ run_scan_returned
    \/ run_scan_raised
    \/ scan_no_size
    \/ scan_makedirs_raises
    \/ scan_begin
    \/ tsk_entry
    \/ tsk_pass_done
    \/ open_in_process
    \/ read_chunk
    \/ read_error
    \/ search_hit
    \/ chunk_end
    \/ next_range
    \/ pass_return
    \/ bifragment_pass
    \/ scan_finalize
    \/ open_parallel
    \/ parallel_startup_fails
    \/ \E w \in 1..Len(workers) : worker_chunk(w)
    \/ \E w \in 1..Len(workers) : worker_hit(w)
    \/ \E w \in 1..Len(workers) : worker_next_range(w)
    \/ \E w \in 1..Len(workers) : worker_put(w)
    \/ \E w \in 1..Len(workers) : worker_raises(w)
    \/ \E w \in 1..Len(workers) : worker_killed(w)
    \/ collect_results
    \/ collect_exit
    \/ join_workers

Spec == Init /\ [][Next]_vars

\* The scan thread is scheduled, and so is every worker process; nothing
\* obliges the user to cancel or to start a scan.  The filesystem adapter's
\* traversal (tsk_entry) runs in a daemon thread of its own that may block in
\* the filesystem library, and is given no fairness.
ScanThread ==
    \/ run_scan_returned \/ run_scan_raised \/ scan_no_size
    \/ scan_makedirs_raises \/ scan_begin \/ tsk_pass_done
    \/ open_in_process \/ read_chunk \/ read_error \/ search_hit
    \/ chunk_end \/ next_range \/ pass_return \/ bifragment_pass
    \/ scan_finalize \/ open_parallel \/ parallel_startup_fails
    \/ collect_results \/ collect_exit
    \/ join_workers

WorkerProcess(w) ==
    worker_chunk(w) \/ worker_hit(w) \/ worker_next_range(w) \/ worker_put(w)

\* The largest number of workers a scan of one of the sources starts
MostWorkers ==
    SetMax({ optimal_worker_count(d.device_size, d.cpu_count) : d \in Sources })

FairSpec ==
    /\ Init
    /\ [][Next]_vars
    /\ WF_vars(ScanThread)
    /\ \A w \in 1..MostWorkers : WF_vars(WorkerProcess(w))

(***************************************************************************)
(* After the scan: damage analysis of a record and saving it, with repair  *)
(* (manager.analyze_file_damage, manager._re_carve_and_save).              *)
(***************************************************************************)
scan_vars == << src, scans_started, clean_results, thread, session_files, was_cancelled,
                complete_calls, pc,
                is_cancelled, cancel_requested, scan_mode, dedup,
                fragment_candidates, recovered, inner, file_counter, offset,
                range_idx, hits, found, tsk_idx, deleted_files, workers,
                result_queue, workers_done, notified, registered, carved,
                emitted, error,
                checkpoint_file, last_checkpoint_bytes, bytes_done,
                reader, disk_open >>

\* No scan has been started
ScanIdle ==
    /\ src = SRC_EMPTY
    /\ scans_started = 0
    /\ clean_results = {}
    /\ thread = "none"
    /\ session_files = << >>
    /\ was_cancelled = FALSE
    /\ complete_calls = 0
    /\ FreshScanner
    /\ checkpoint_file = Checkpoint("unset", 0, 0)

\* What _read_from_device can give for a record: the record has no device
\* path or no size, the read raises, or it returns bytes
Devices ==
    { [outcome |-> o, data |-> FileData("empty", Clean, 0)] :
          o \in { "no_path", "raises" } }
    \cup { [outcome |-> "ok", data |-> FileData(l, Clean, 0)] :
               l \in { "empty", "short" } }
    \cup { [outcome |-> "ok", data |-> FileData("long", f, 0)] :
               f \in Findings }

\* A record of the session before it is analysed or saved: a carved record
\* has no report, an adapter record has the default one
FoundRecords ==
    { [extension |-> e, damage_report |-> d, repair_result |-> << >>,
       is_repaired |-> FALSE] :
          e \in Extensions, d \in { << >>, << tsk_default_report >> } }

\* What the checks can find in bytes a repair handler has rewritten
RepairedFindings ==
    { f \in Findings : /\ ~f.entropy_anomaly
                       /\ ~f.repair_actions
                       /\ f.null_region_percent = 0 }

\* What a format's repair handler can do with the bytes: leave them as they
\* are or rewrite them, and record actions taken and actions failed
Handled(data) ==
    [ repaired : { data } \cup { FileData("long", f, 1) :
                                    f \in RepairedFindings },
      actions_taken : BOOLEAN, actions_failed : BOOLEAN ]

SaveInit ==
    /\ ScanIdle
    /\ FilesIdle
    /\ ProbeIdle
    /\ CountIdle
    /\ stage = "found"
    /\ device \in Devices
    /\ record \in FoundRecords
    /\ out_file = << >>

\* manager.analyze_file_damage
analyze_file_damage ==
    /\ stage = "found"
    /\ stage' = "analyzed"
    /\ record' = [record EXCEPT !.damage_report =
                 << IF device.outcome = "no_path" THEN cannot_read_report
                    ELSE IF device.outcome = "raises"
                    THEN analysis_error_report
                    ELSE analyze_damage(record.extension, device.data) >>]
    /\ UNCHANGED << device, out_file, scan_vars, files_vars, probe_vars, count_vars >>

\* manager._re_carve_and_save: read, analyse, repair if damaged and
\* repairable, write; False when nothing is read or something raises
_re_carve_and_save ==
    /\ stage \in { "found", "analyzed" }
    /\ IF device.outcome # "ok" \/ device.data.length = "empty"
       THEN /\ stage' = "save_failed"
            /\ UNCHANGED << record, out_file >>
       ELSE LET data == device.data
                damage == analyze_damage(record.extension, data)
            IN  \E open_raises \in BOOLEAN :
                    /\ stage' = IF open_raises THEN "save_failed" ELSE "saved"
                    /\ IF damage.is_damaged /\ damage.repairable
                       THEN \E handled \in Handled(data) :
                                LET repair == repair_file(record.extension, data,
                                                          damage, handled)
                                    ok == /\ repair.success
                                          /\ Head(repair.repaired_data).length
                                                 # "empty"
                                IN  /\ record' = [record EXCEPT
                                          !.repair_result = << repair >>,
                                          !.is_repaired = ok,
                                          !.damage_report =
                                              IF ok THEN repair.damage_after
                                              ELSE << damage >>]
                                    /\ out_file' =
                                           IF open_raises THEN << >>
                                           ELSE IF ok THEN repair.repaired_data
                                           ELSE << data >>
                       ELSE /\ record' = [record EXCEPT
                                         !.damage_report = << damage >>]
                            /\ out_file' = IF open_raises THEN << >>
                                           ELSE << data >>
    /\ UNCHANGED << device, scan_vars, files_vars, probe_vars, count_vars >>

SaveNext == analyze_file_damage \/ _re_carve_and_save

SaveSpec == SaveInit /\ [][SaveNext]_vars

(***************************************************************************)
(* Saving carved files from the worker processes (scanner._scan_parallel,  *)
(* parallel._save_file_worker).  A path is the number in the file name and *)
(* the suffix appended to it (0 for none); category and extension are the  *)
(* same for all the files considered.                                      *)
(***************************************************************************)
\* _scan_parallel: the gap between the counters of two workers
counter_step == 100000

\* Workers that save, and files each of them saves in a run of the model
NumSavers == 2
MaxSaves == 2

\* _scan_parallel: the counter worker i (from 0) starts with
counter_start(counter_base, i) == counter_base + i * counter_step

\* Files a worker can have saved before the moment the model starts from,
\* each under its own number
SavedBefore == { 0, counter_step - 1, counter_step }

\* os.path.exists
path_exists(dir, path) ==
    \/ path \in dir.written
    \/ /\ path.suffix = 0
       /\ \E r \in dir.earlier : r[1] <= path.number /\ path.number <= r[2]

\* _save_file_worker: recovered_{counter + 1:06d}.ext
first_path(n) == [number |-> n + 1, suffix |-> 0]

FilesInit ==
    /\ ScanIdle
    /\ RecordIdle
    /\ ProbeIdle
    /\ CountIdle
    /\ \E before \in [1..NumSavers -> SavedBefore] :
           /\ counter = [w \in 1..NumSavers |->
                             counter_start(0, w - 1) + before[w]]
           /\ out_dir = [earlier |->
                             { << counter_start(0, w - 1) + 1,
                                  counter_start(0, w - 1) + before[w] >> :
                                   w \in 1..NumSavers },
                         written |-> {}]
    /\ saving = [w \in 1..NumSavers |->
                     [at |-> "idle", path |-> first_path(0), saves |-> 0]]
    /\ overwritten = {}

\* _save_file_worker is called for a carved file: the name from the counter
save_begin(w) ==
    /\ saving[w].at = "idle"
    /\ saving[w].saves < MaxSaves
    /\ saving' = [saving EXCEPT ![w].at = "exists",
                                ![w].path = first_path(counter[w])]
    /\ UNCHANGED << counter, out_dir, overwritten, scan_vars, record_vars,
                    probe_vars, count_vars >>

\* _save_file_worker: one os.path.exists; the next suffix while it is true
save_exists(w) ==
    /\ saving[w].at = "exists"
    /\ saving' = IF path_exists(out_dir, saving[w].path)
                 THEN [saving EXCEPT ![w].path.suffix = @ + 1]
                 ELSE [saving EXCEPT ![w].at = "open"]
    /\ UNCHANGED << counter, out_dir, overwritten, scan_vars, record_vars,
                    probe_vars, count_vars >>

\* _save_file_worker: open(path, "wb") and write; the worker's counter goes
\* up when the record is kept, and stays when it is a content duplicate
save_open(w) ==
    /\ saving[w].at = "open"
    /\ overwritten' = IF path_exists(out_dir, saving[w].path)
                      THEN overwritten \cup { saving[w].path }
                      ELSE overwritten
    /\ out_dir' = [out_dir EXCEPT !.written = @ \cup { saving[w].path }]
    /\ saving' = [saving EXCEPT ![w].at = "idle", ![w].saves = @ + 1]
    /\ \E kept \in BOOLEAN :
           counter' = [counter EXCEPT ![w] = IF kept THEN @ + 1 ELSE @]
    /\ UNCHANGED << scan_vars, record_vars, probe_vars, count_vars >>

FilesNext ==
    \E w \in 1..NumSavers : save_begin(w) \/ save_exists(w) \/ save_open(w)

FilesSpec == FilesInit /\ [][FilesNext]_vars

(***************************************************************************)
(* Filesystem probers (filesystem.py): the free ranges of an exFAT volume  *)
(* (_parse_exfat, _bitmap_to_free_ranges) and of an ext2/3/4 volume        *)
(* (_parse_ext).  A bitmap is a sequence of byte values.                    *)
(***************************************************************************)
\* Bytes a bitmap is made of, and the longest bitmap, in bytes
ByteValues == { 0, 7, 48, 255 }
MaxBitmapBytes == 2
Bitmaps == UNION { [1..n -> ByteValues] : n \in 0..MaxBitmapBytes }

\* (bitmap[byte_idx] >> bit_idx) & 1
is_allocated(bitmap, idx) == (bitmap[(idx \div 8) + 1] \div (2 ^ (idx % 8))) % 2

\* The loop of the converters over idx = 0 .. limit - 1, left when the bitmap
\* ends: the runs it closed, the run still open (-1 for None) and the value
\* the loop variable has after the loop
RECURSIVE scan_bitmap(_, _, _, _, _)
scan_bitmap(bitmap, limit, idx, run_start, runs) ==
    IF idx >= limit
    THEN [runs |-> runs, run_start |-> run_start, last |-> idx - 1]
    ELSE IF idx \div 8 >= Len(bitmap)
    THEN [runs |-> runs, run_start |-> run_start, last |-> idx]
    ELSE IF is_allocated(bitmap, idx) = 0
    THEN scan_bitmap(bitmap, limit, idx + 1,
                     IF run_start = 0 - 1 THEN idx ELSE run_start, runs)
    ELSE scan_bitmap(bitmap, limit, idx + 1, 0 - 1,
                     IF run_start # 0 - 1
                     THEN Append(runs, << run_start, idx >>) ELSE runs)

\* Runs of units from first_unit on, as byte ranges from base on
RECURSIVE to_bytes(_, _, _, _)
to_bytes(runs, base, first_unit, unit_size) ==
    IF runs = << >> THEN << >>
    ELSE << << base + (first_unit + Head(runs)[1]) * unit_size,
               base + (first_unit + Head(runs)[2]) * unit_size >> >>
         \o to_bytes(Tail(runs), base, first_unit, unit_size)

\* filesystem._bitmap_to_free_ranges
_bitmap_to_free_ranges(bitmap, cluster_count, heap_offset, bytes_per_cluster) ==
    LET s == scan_bitmap(bitmap, cluster_count, 0, 0 - 1, << >>)
        closed == to_bytes(s.runs, heap_offset, 0, bytes_per_cluster)
    IN  IF s.run_start # 0 - 1
        THEN Append(closed,
                 << heap_offset + s.run_start * bytes_per_cluster,
                    heap_offset
                        + Min(cluster_count, s.last + 1) * bytes_per_cluster >>)
        ELSE closed

\* _parse_ext: the free ranges of one block group
ext_group_ranges(group_bitmap, group_idx, total_blocks, blocks_per_group, block_size) ==
    LET group_start_block == group_idx * blocks_per_group
        blocks_in_group ==
            Min(blocks_per_group, total_blocks - group_start_block)
        bitmap_bytes_needed == (blocks_in_group + 7) \div 8
        bitmap == SubSeq(group_bitmap, 1,
                         Min(Len(group_bitmap),
                             Min(bitmap_bytes_needed, block_size)))
        s == scan_bitmap(bitmap, blocks_in_group, 0, 0 - 1, << >>)
        closed == to_bytes(s.runs, 0, group_start_block, block_size)
    IN  IF s.run_start # 0 - 1
        THEN Append(closed,
                 << (group_start_block + s.run_start) * block_size,
                    (group_start_block + blocks_in_group) * block_size >>)
        ELSE closed

\* _parse_ext: the groups from group_idx on, in the order of their index
RECURSIVE ext_ranges(_, _, _, _, _, _)
ext_ranges(bitmaps, group_idx, num_groups, total_blocks, blocks_per_group, block_size) ==
    IF group_idx >= num_groups THEN << >>
    ELSE ext_group_ranges(bitmaps[group_idx + 1], group_idx, total_blocks,
                          blocks_per_group, block_size)
         \o ext_ranges(bitmaps, group_idx + 1, num_groups, total_blocks,
                       blocks_per_group, block_size)

\* filesystem.FilesystemInfo; fs_type "" stands for a prober returning None
FilesystemInfo(fs_type, ranges) ==
    [ parsed |-> TRUE, fs_type |-> fs_type, free_ranges |-> ranges,
      total_free_bytes |-> total_free_bytes(ranges) ]

\* No prober has run
NotProbed ==
    [ parsed |-> FALSE, fs_type |-> "", free_ranges |-> << >>,
      total_free_bytes |-> 0 ]

\* Block and cluster sizes, and the size of the device in bytes
UnitSizes == { 1 * KiB, 4 * KiB }
ProbeDeviceSize == 64 * KiB

\* The volumes the probers are run on: what the boot sector or superblock
\* declares, and the bitmaps read from the device; the declared size may be
\* below, at or above the size of the device
Volumes ==
    { [ fs_type |-> "exfat", device_size |-> ProbeDeviceSize,
        unit_size |-> u, units |-> n, blocks_per_group |-> 0,
        heap_offset |-> h, bitmaps |-> << b >> ] :
          u \in UnitSizes, n \in { 0, 5, 12, 16, 24 }, h \in { 0, 8 * KiB },
          b \in Bitmaps }
    \cup
    { [ fs_type |-> "ext2", device_size |-> ProbeDeviceSize,
        unit_size |-> u, units |-> n, blocks_per_group |-> g,
        heap_offset |-> 0, bitmaps |-> << b1, b2 >> ] :
          u \in UnitSizes, n \in { 0, 12, 16, 24 }, g \in { 0, 8, 16 },
          b1 \in Bitmaps, b2 \in Bitmaps }

ProbeInit ==
    /\ ScanIdle
    /\ RecordIdle
    /\ FilesIdle
    /\ CountIdle
    /\ volume \in Volumes
    /\ fs_info = NotProbed

\* filesystem._parse_exfat
_parse_exfat ==
    /\ volume.fs_type = "exfat"
    /\ ~fs_info.parsed
    /\ fs_info' = FilesystemInfo("exfat",
                      _bitmap_to_free_ranges(volume.bitmaps[1], volume.units,
                                             volume.heap_offset,
                                             volume.unit_size))
    /\ UNCHANGED << volume, scan_vars, record_vars, files_vars, count_vars >>

\* filesystem._parse_ext; the descriptor table may hold fewer groups than
\* the superblock declares
_parse_ext ==
    /\ volume.fs_type = "ext2"
    /\ ~fs_info.parsed
    /\ fs_info' =
           IF volume.blocks_per_group = 0
           THEN [NotProbed EXCEPT !.parsed = TRUE]
           ELSE LET num_groups ==
                        (volume.units + volume.blocks_per_group - 1)
                            \div volume.blocks_per_group
                IN  FilesystemInfo("ext2",
                        ext_ranges(volume.bitmaps, 0,
                                   Min(num_groups, Len(volume.bitmaps)),
                                   volume.units, volume.blocks_per_group,
                                   volume.unit_size))
    /\ UNCHANGED << volume, scan_vars, record_vars, files_vars, count_vars >>

ProbeNext == _parse_exfat \/ _parse_ext

ProbeSpec == ProbeInit /\ [][ProbeNext]_vars

(***************************************************************************)
(* The worker count (parallel.optimal_worker_count) on its own.           *)
(***************************************************************************)
\* The sizes go up to MaxUnits times 50 MiB, the processors up to MaxCpus
MaxUnits == 9
MaxCpus == 9

\* Sizes at, just below, just above and half way between the multiples of
\* min_range_per_worker
TotalBytes ==
    { u * MIN_RANGE_PER_WORKER + d :
          u \in 0..MaxUnits, d \in { 0 - 1, 0, 1, 25 * MiB } } \cap Nat

CountInit ==
    /\ ScanIdle
    /\ RecordIdle
    /\ FilesIdle
    /\ ProbeIdle
    /\ request \in [total_bytes : TotalBytes, cpu_count : 0..MaxCpus]
    /\ n_workers = 0

\* _scan_parallel line 1214
count_workers ==
    /\ n_workers = 0
    /\ n_workers' = optimal_worker_count(request.total_bytes, request.cpu_count)
    /\ UNCHANGED << request, scan_vars, record_vars, files_vars, probe_vars >>

CountNext == count_workers

CountSpec == CountInit /\ [][CountNext]_vars

(***************************************************************************)
(* Properties.                                                             *)
(***************************************************************************)
Distance(a, b) == IF a >= b THEN a - b ELSE b - a

\* The lists of accepted records the scan holds at this moment
AcceptedLists == {recovered, inner}
Accepted == Elems(recovered) \cup Elems(inner)

\* How often record r was passed to on_file_found
TimesNotified(r) == Cardinality({ i \in 1..Len(notified) : notified[i] = r })

\* C1: at every point of a scan and in its final result, no two accepted
\* records have offsets within the 512-byte window of each other, and no two
\* have the same content fingerprint, whichever path emitted them.
C1_NoDuplicateRecords ==
    \A list \in AcceptedLists : \A i, j \in 1..Len(list) :
        i # j => /\ Distance(list[i].offset, list[j].offset) >= DEDUP_WINDOW
                 /\ list[i].md5 # list[j].md5

\* C2: a record once registered with the session is in the list the scan
\* returns.
C2_RegisteredStay ==
    pc = "returned" => registered \subseteq Elems(recovered)

\* C3: every accepted record lies inside the device and its size is within
\* its signature's bounds.
C3_RecordBounds ==
    \A r \in Accepted :
        /\ 0 <= r.offset
        /\ r.offset + r.size <= src.device_size
        /\ _find_sig_by_ext(r.extension).min_size <= r.size
        /\ r.size <= _find_sig_by_ext(r.extension).max_size

\* C4: in forensic mode the bytes of every accepted record lie within one
\* free range of the list the filesystem probe returned (the scans of this
\* model stitch no record from two ranges).
C4_WithinFreeRange ==
    scan_mode = "forensic" =>
        \A r \in Accepted : \E i \in 1..Len(src.free_ranges) :
            /\ src.free_ranges[i][1] <= r.offset
            /\ r.offset + r.size <= src.free_ranges[i][2]

\* C5: every candidate that was carved and then failed the validator, or was
\* a content-fingerprint duplicate, has been emitted as a record with
\* is_valid = false and a Damage Report.
C5_NothingDiscarded ==
    \A c \in carved :
        c.verdict \in {"invalid", "duplicate"} =>
            \E r \in emitted : /\ r.offset = c.offset
                               /\ r.extension = c.extension
                               /\ ~r.is_valid
                               /\ r.damage_report

\* C6: once cancellation has been requested, no further chunk is read, no
\* further chunk-search iteration runs and no further adapter directory
\* entry is visited.
C6_CancelStopsWork ==
    [][cancel_requested => ~(read_chunk \/ search_hit \/ tsk_entry)]_vars

\* C7: when a parallel scan that was asked to cancel returns, no result a
\* worker produced is left unread in the result channel.
C7_ResultsDrained ==
    (pc = "returned" /\ cancel_requested /\ workers # << >>)
        => result_queue = << >>

\* C8: on_file_found has been called exactly once for every record of the
\* returned list, and for no record that is not in it.
C8_NotifiedOncePerRecord ==
    pc = "returned" =>
        /\ \A r \in Elems(recovered) : TimesNotified(r) = 1
        /\ \A r \in Elems(notified) : r \in Elems(recovered)

SmallSource == src.device_size < SMALLEST_MIN_SIZE

\* C10: a scan of a source smaller than every signature's min_size that has
\* opened the source returns, and the list it returns is empty.
C10_SmallSourceReturnsEmpty ==
    (SmallSource /\ pc = "open") ~> (pc = "returned" /\ recovered = << >>)

\* The Damage Reports the record carries: its own, and those of its repair
Reports ==
    Elems(record.damage_report)
    \cup UNION { Elems(r.damage_before) \cup Elems(r.damage_after) :
                    r \in Elems(record.repair_result) }

\* C11: in every Damage Report the level is healthy exactly when the score is
\* 0, and fatal exactly when the score is above 0.65
C11_LevelMatchesScore ==
    \A r \in Reports :
        /\ (r.damage_level = "healthy") <=> (r.damage_score = 0)
        /\ (r.damage_level = "fatal") <=> (r.damage_score > 650)

\* C12: a repair that reports success, and a record marked is_repaired, have
\* a damage level after the repair that is not above the level before it
C12_RepairNeverWorse ==
    \A r \in Elems(record.repair_result) :
        /\ r.success =>
               level_order(Head(r.damage_after).damage_level)
                   <= level_order(Head(r.damage_before).damage_level)
        /\ record.is_repaired =>
               level_order(Head(record.damage_report).damage_level)
                   <= level_order(Head(r.damage_before).damage_level)

\* The repair did not lower the damage level
NoImprovement(r) ==
    level_order(Head(r.damage_after).damage_level)
        >= level_order(Head(r.damage_before).damage_level)

\* C13: when a repair brought no improvement, the bytes written for the file
\* are exactly the bytes read before the repair (the result of the repair is
\* the one attached to the record)
C13_FailedRepairKeepsBytes ==
    \A r \in Elems(record.repair_result) :
        (stage = "saved" /\ NoImprovement(r)) => out_file = << device.data >>

\* C14: no file is saved to a path that already exists, so no two saves go
\* to the same path and no save overwrites a file, also when several workers
\* save into the same output directory at the same time
C14_NoSaveCollision == overwritten = {}

\* C15: a free-range list a prober returns is sorted by start byte and
\* pairwise disjoint, every range has start < end, and the lengths of the
\* ranges add up to no more than the size of the device
C15_FreeRangesWellFormed ==
    LET R == fs_info.free_ranges
    IN  /\ \A i \in 1..Len(R) : R[i][1] < R[i][2]
        /\ \A i \in 1..Len(R) : \A j \in 1..Len(R) :
               i < j => R[i][2] <= R[j][1]
        /\ total_free_bytes(R) <= volume.device_size

\* C16: a single-worker scan that is not cancelled terminates: once its
\* chunk loop has been entered, the loop is left after finitely many chunks
C16_SingleWorkerScanTerminates ==
    (pc = "loop") ~> (pc \notin { "loop", "search" } \/ cancel_requested)

\* C17: in the in-process scan and within each worker, every chunk is read
\* at an offset greater than that of the chunk read before it: each step
\* that moves on from a chunk moves the offset forward
C17_ChunkOffsetsIncrease ==
    [][ /\ ((read_chunk /\ pc' = "loop") \/ chunk_end) => offset' > offset
        /\ \A w \in 1..Len(workers) :
               worker_chunk(w) => workers'[w].offset > workers[w].offset ]_vars

\* A complete file whose header magic lies across the end of the first chunk
\* of a brute-force in-process scan
StraddlesFirstChunk(e) ==
    /\ e.ext # "raw" /\ e.intact /\ e.footer
    /\ e.off < READ_CHUNK
    /\ READ_CHUNK < e.off + _find_sig_by_ext(e.ext).header_len

\* C18: a file whose magic straddles the boundary between two chunks is
\* found exactly once: the list a scan that ran to its end returns holds
\* one record for it, not none and not two
C18_StraddlingHeaderFoundOnce ==
    (/\ pc = "returned" /\ scan_mode = "brute-force" /\ workers = << >>
     /\ ~cancel_requested /\ ~error) =>
        \A e \in src.extents :
            StraddlesFirstChunk(e) =>
                Cardinality({ i \in 1..Len(recovered) :
                                recovered[i].offset = e.off }) = 1

\* C19: a cancellation requested at any moment of a running scan, also before
\* the first chunk is read, is not lost: the scan then stops and, unless it
\* ended with an error, its session is marked as cancelled
C19_CancelNeverLost ==
    cancel_requested ~> (thread = "dead" /\ (was_cancelled \/ error))

\* The worker whose ranges hold the byte at pos: the process that carved the
\* record at that offset
found_by(pos) ==
    { w \in 1..Len(workers) :
        \E i \in 1..Len(workers[w].ranges) :
            /\ align_down(workers[w].ranges[i][1]) <= pos
            /\ pos < workers[w].ranges[i][2] }

\* C20: the list merged from the workers' results of a parallel scan holds no
\* two records of different workers with offsets within the 512-byte window
\* of each other, and no two records with the same content fingerprint
C20_MergeDedupsAcrossWorkers ==
    workers # << >> =>
        \A i, j \in 1..Len(inner) :
            i # j =>
                /\ found_by(inner[i].offset) # found_by(inner[j].offset) =>
                       Distance(inner[i].offset, inner[j].offset)
                           >= DEDUP_WINDOW
                /\ inner[i].md5 # inner[j].md5

\* C21: the result-collection loop of a parallel scan that is not cancelled
\* is left after finitely many steps, whatever the workers do, also when a
\* worker is killed before it has posted its result
C21_CollectionTerminates ==
    (pc = "collect") ~> (pc # "collect" \/ cancel_requested)

\* The pass is run in process although the scan is large enough for worker
\* processes: the parallel startup has failed
FellBack ==
    /\ use_parallel
    /\ workers = << >>
    /\ pc \in { "loop", "search" }

\* C22: when the parallel startup has failed, the single-worker in-process
\* scan that takes over runs to its end and the run completes
C22_FallbackCompletes ==
    FellBack ~> (pc = "returned" \/ cancel_requested \/ error)

\* The carving passes keep to the scan domain: the chunk of the in-process
\* pass lies in a range of it (from the sector the range starts in), and so
\* does every range given to a worker
WithinDomain ==
    /\ (pc = "search" \/ (pc = "loop" /\ in_loop)) =>
           \E i \in 1..Len(scan_domain) :
               /\ align_down(scan_domain[i][1]) <= offset
               /\ offset + chunk_len <= scan_domain[i][2]
    /\ \A w \in 1..Len(workers) : \A k \in 1..Len(workers[w].ranges) :
           \E i \in 1..Len(scan_domain) :
               /\ scan_domain[i][1] <= workers[w].ranges[k][1]
               /\ workers[w].ranges[k][2] <= scan_domain[i][2]

\* C23 as stated: once the mode is chosen, the scan is forensic exactly when
\* a filesystem prober succeeded, and the passes keep to the scan domain
C23_ProberSuccessMeansForensic ==
    scan_mode # "" =>
        /\ (scan_mode = "forensic") <=> (src.probe = "parsed")
        /\ WithinDomain

\* C23: once the mode is chosen, the scan is forensic exactly when a
\* filesystem prober succeeded and found at least one free range, its domain
\* then being that prober's free-range list; in every other case
\* (unsupported filesystem, prober error, no free range) it is brute-force
\* over [(0, device_size)]; the passes keep to the domain and the probe's
\* outcome never ends the scan
C23_ModeSelection ==
    scan_mode # "" =>
        /\ (scan_mode = "forensic")
               <=> (src.probe = "parsed" /\ src.free_ranges # << >>)
        /\ WithinDomain
        /\ pc # "raised"

\* C23 witness: a scan of a source whose probe raised has run to its end in
\* brute-force mode and returned a record
C23_Witness ==
    /\ src.probe = "raises" /\ scan_mode = "brute-force"
    /\ pc = "returned" /\ ~error /\ recovered # << >>

(***************************************************************************)
(* Checkpoints.                                                            *)
(***************************************************************************)
\* The in-process pass is at the top of its loop
AtLoopTop == pc = "loop" /\ scan_mode # ""

\* C24: every 100 MiB of advance a checkpoint record is written: a scanner
\* with a checkpoint directory that is at the top of its loop is never
\* 100 MiB and a chunk or more past the position of its last checkpoint
C24_CheckpointEveryInterval ==
    (AtLoopTop /\ checkpoint_file.state # "unset")
        => scan_position - checkpoint_file.bytes_scanned
               < _checkpoint_interval + READ_CHUNK

\* C25: checkpoints are erased on successful completion: when scan()
\* returns after a scan that was neither cancelled nor ended by an error, no
\* checkpoint file exists, and when it returns after any other scan the
\* checkpoint file is as it was
C25_ErasedOnSuccessOnly ==
    [][(pc = "finalize" /\ pc' = "returned")
           => IF ~is_cancelled /\ ~error
              THEN checkpoint_file'.state # "present"
              ELSE checkpoint_file' = checkpoint_file]_vars

(***************************************************************************)
(* The filesystem adapter's timeout.                                       *)
(***************************************************************************)
\* The scan is past its filesystem-adapter pass
AfterTsk == pc \in { "open", "loop", "search", "collect", "join",
                     "bifragment", "finalize", "returned", "done" }

\* The records of the deleted files the adapter had found when its call
\* returned are in the scan's list
TskRetained ==
    \A i \in 1..Len(deleted_files) :
        \E j \in 1..Len(recovered) : recovered[j] = tsk_record(deleted_files[i])

\* C26: the filesystem-adapter call returns to scan() whatever its traversal
\* thread does (the thread is given no fairness: it may block for ever), and
\* from then on the records of the deleted files found so far stay in the
\* scan's list while raw carving goes on and when the scan has returned
C26_TskTimeout ==
    /\ (pc = "tsk") ~> (pc = "open")
    /\ [](AfterTsk => TskRetained)

(***************************************************************************)
(* The reader's mapping and file handle.                                   *)
(***************************************************************************)
\* scan() has returned or raised
ScanExited == pc \in { "returned", "raised", "done" }

\* C27: when scan() has exited, by its normal end, after a cancellation or
\* after an exception, its reader's mapping and its file object are closed,
\* and a worker process that is no longer running holds no mapping
C27_ReaderReleased ==
    /\ ScanExited => reader = "none" /\ ~disk_open
    /\ \A w \in 1..Len(workers) :
           workers[w].status # "running" => workers[w].reader = "none"

(***************************************************************************)
(* The worker count.                                                       *)
(***************************************************************************)
\* The processors optimal_worker_count reckons with
Parallelism == IF request.cpu_count = 0 THEN 2 ELSE request.cpu_count

\* ceil(total_bytes / 50 MiB)
CeilUnits == (request.total_bytes + MIN_RANGE_PER_WORKER - 1) \div MIN_RANGE_PER_WORKER

\* C28 as the text has it: for a size a parallel scan is tried on, the
\* worker count is min(available parallelism, ceil(total / 50 MiB), 8)
C28_CeilingWorkerCount ==
    (n_workers # 0 /\ request.total_bytes >= _PARALLEL_THRESHOLD)
        => n_workers = Min(Min(Parallelism, CeilUnits), 8)

\* C28: the worker count is the largest n of at most 8 and at most the
\* available parallelism (2 when it is unknown) for which each worker gets
\* 50 MiB or more, and 1 when there is no such n: it is
\* min(available parallelism, max(1, floor(total / 50 MiB)), 8)
C28_WorkerCount ==
    n_workers # 0 =>
        LET fits(n) == /\ n <= 8
                       /\ n <= Parallelism
                       /\ n = 1 \/ n * 50 * MiB <= request.total_bytes
        IN  /\ n_workers \in 1..8
            /\ fits(n_workers)
            /\ ~fits(n_workers + 1)

\* A count was computed for 125 MiB on a machine with four processors: two
\* workers, where rounding up would give three
C28_Witness ==
    /\ request = [total_bytes |-> 125 * MiB, cpu_count |-> 4]
    /\ n_workers = 2

(***************************************************************************)
(* Parallel and single-worker scans.                                       *)
(***************************************************************************)
\* C29: the undisturbed scans of one source, whether the parallel pass ran
\* or the in-process pass on the same ranges, return the same set of records
C29_SameRecords == Cardinality(clean_results) <= 1

\* The records of the returned list that stand at the offset of a carved file
RecordsAt(off) == { i \in 1..Len(recovered) : recovered[i].offset = off }

\* C30: when an undisturbed scan has returned, every file a carver wrote into
\* the output directory has exactly one record in the returned list
C30_OneRecordPerFile == (pc = "returned" /\ Undisturbed) => \A c \in carved : c.saved => Cardinality(RecordsAt(c.offset)) = 1

====
